---- MODULE Spec2Model ----
(***************************************************************************)
(* A model of autoGrader.py (class AutoGrader).                            *)
(*                                                                         *)
(* Text is modelled as a sequence of one-character strings, so that the    *)
(* splitting, slicing, searching and joining the program does on file      *)
(* names, format strings, rule lines and configuration files is computed   *)
(* the way the program computes it.                                        *)
(***************************************************************************)
EXTENDS Integers, Sequences, FiniteSets, TLC

VARIABLES
    \* ---- configuration and filename-format decoder (self.*) ----
    general_config,               \* self.general_config
    global_general_config,        \* self.global_general_config
    filename_separator,           \* self.filename_separator ("None" before the first decode)
    file_format_items,            \* self.file_format_items
    student_name_in_file_format,  \* self.student_name_in_file_format
    late_index_in_file_format,    \* self.late_index_in_file_format
    local_general_file,           \* text of ./AutoGrader.config (Absent when there is none)
    warnings,                     \* messagebox.showwarning titles shown so far
    file_format_arg,              \* the argument of the last set_file_format_info call
    fmt_pc,                       \* where the format handling stands
    \* ---- submission resolver (self.*) ----
    dir_listing,                  \* os.listdir(self.dir): the raw file names, in listing order
    codefiles,                    \* self.codefiles
    codefile_index,               \* self.codefile_index
    roster_fullname,              \* self.roster_fullname (NoneList when None)
    roster_email,                 \* self.roster_email (NoneList when None)
    fullname,                     \* self.fullname
    filename,                     \* self.filename
    version,                      \* self.version
    versioned_filename,           \* self.versioned_filename
    timestamp,                    \* self.timestamp
    student_name,                 \* self.student_name
    email,                        \* self.email
    file_label,                   \* self.file_label
    res_pc,                       \* where the resolver stands
    \* ---- rule engine (req_and_prohib) ----
    rule_config,                  \* config['req_<x>'], config['prohib_<x>'] and x (code_or_output)
    rule_text,                    \* text: the code or the output the rules are run against
    rule_result,                  \* what req_and_prohib returned (or that it raised)
    rule_pc,                      \* where the rule evaluation stands
    \* ---- configuration tiers and the directory being set up ----
    global_specific_config,       \* self.global_specific_config
    specific_configs,             \* self.specific_configs: '<codefile>.config' -> configuration
    local_specific_files,         \* the '<codefile>.config' files of the directory: name -> text
    file_mtime,                   \* os.path.getmtime of the configuration files of the directory
    roster_id,                    \* self.roster_id ("None" when None)
    now,                          \* time.time()
    cfg_input,                    \* the records the configuration files were written from
    cfg_pc,                       \* where setup_for_new_dir stands
    \* ---- grading runs (run_all, run_one) ----
    codefile,                     \* self.codefile
    chosen_file,                  \* self.chosen_file.get()
    current_code,                 \* self.current_code (Absent when None)
    submissions,                  \* the submitted files: raw name -> text and os.path.getmtime
    disk,                         \* the sandboxes below self.dir: directories, and file -> mtime
    backend,                      \* whether the shell can launch the toolchain of the codefile
    active_letter_file,           \* self.active_letter_file (NoPath when None)
    run_log,                      \* what the last run_all did, student file by student file
    \* ---- the decoder applied to one raw name (parse_one_filename) ----
    parse_name,                   \* name: the raw file name handed to parse_one_filename
    parse_rtn,                    \* what parse_one_filename returned (or that it raised)
    parse_pc,                     \* where the decoding stands
    \* ---- the output classifiers (R_post_analyze, SAS_post_analyze, PY_post_analyze) ----
    post_call,                    \* the classifier called, with its text, log or err file, config
    post_result,                  \* what the classifier returned (or that it raised)
    post_pc,                      \* where the classification stands
    \* ---- one grading run with the texts it writes (run_one lines 1069-1096) ----
    grade_call,                   \* the codefile, the code, what the toolchain left, the config
    grade_result,                 \* the artifacts run_one left and what the analyses returned
    grade_pc                      \* where the grading run stands

fmtVars == <<general_config, global_general_config, filename_separator,
             file_format_items, student_name_in_file_format,
             late_index_in_file_format, local_general_file, warnings,
             file_format_arg, fmt_pc>>

studentVars == <<fullname, filename, version, versioned_filename, timestamp,
                 student_name, email, file_label>>

resVars == <<dir_listing, codefiles, codefile_index, roster_fullname, roster_email,
             studentVars, res_pc>>

ruleVars == <<rule_config, rule_text, rule_result, rule_pc>>

\* the areas a specification about the decoder or the resolver leaves alone
cfgVars == <<global_specific_config, specific_configs, local_specific_files, file_mtime,
             roster_id, now, cfg_input, cfg_pc>>

runVars == <<codefile, chosen_file, current_code, submissions, disk, backend,
             active_letter_file, run_log>>

decVars == <<parse_name, parse_rtn, parse_pc>>

postVars == <<post_call, post_result, post_pc>>

gradeVars == <<grade_call, grade_result, grade_pc>>

auxVars == <<decVars, postVars, gradeVars>>

restVars == <<ruleVars, cfgVars, runVars, auxVars>>

vars == <<fmtVars, resVars, restVars>>

(***************************************************************************)
(* Text helpers (Python str / list operations)                             *)
(***************************************************************************)

\* bounds of the model
MaxFmtTokens == 3

\* a file that does not exist
Absent == <<"<absent>">>

\* set(x for x in s)
Chars(s) == {s[i] : i \in 1..Len(s)}

\* p in t, for strings
IsSubstr(p, t) == \E i \in 0..(Len(t) - Len(p)) : SubSeq(t, i + 1, i + Len(p)) = p

\* x in lst, for lists
InList(x, lst) == \E i \in 1..Len(lst) : lst[i] = x

\* lst.index(x), 0-based (x is in lst)
IndexOf(x, lst) == (CHOOSE i \in 1..Len(lst) : lst[i] = x /\ \A j \in 1..(i - 1) : lst[j] # x) - 1

\* lst.remove(x): drops the first occurrence
RemoveFirst(x, lst) ==
    IF InList(x, lst)
    THEN LET k == IndexOf(x, lst) + 1
         IN  SubSeq(lst, 1, k - 1) \o SubSeq(lst, k + 1, Len(lst))
    ELSE lst

\* s[1:]
DropFirst(s) == IF Len(s) <= 1 THEN <<>> ELSE SubSeq(s, 2, Len(s))

\* the positions of s that hold c, in order
PositionsOf(s, c) == SelectSeq([i \in 1..Len(s) |-> i], LAMBDA i : s[i] = c)

\* the pieces of s between the positions cuts (before the first, after the last)
PiecesBetween(s, cuts) ==
    [k \in 1..(Len(cuts) + 1) |->
        SubSeq(s, IF k = 1 THEN 1 ELSE cuts[k - 1] + 1,
                  IF k = Len(cuts) + 1 THEN Len(s) ELSE cuts[k] - 1)]

\* s.split(sep) for a one-character sep
Split(s, sep) == PiecesBetween(s, PositionsOf(s, sep))

\* "".join(parts)
RECURSIVE Flatten(_)
Flatten(parts) == IF parts = <<>> THEN <<>> ELSE Head(parts) \o Flatten(Tail(parts))

\* sep.join(parts)
RECURSIVE Join(_, _)
Join(parts, sep) ==
    IF parts = <<>> THEN <<>>
    ELSE IF Len(parts) = 1 THEN Head(parts)
    ELSE Head(parts) \o sep \o Join(Tail(parts), sep)

\* the characters str.strip() removes
Whitespace == {" ", "\t", "\n", "\r"}

RECURSIVE LStrip(_)
LStrip(s) == IF s # <<>> /\ Head(s) \in Whitespace THEN LStrip(Tail(s)) ELSE s

RECURSIVE RStrip(_)
RStrip(s) ==
    IF s # <<>> /\ s[Len(s)] \in Whitespace THEN RStrip(SubSeq(s, 1, Len(s) - 1)) ELSE s

\* s.strip()
Strip(s) == RStrip(LStrip(s))

\* [r.strip() for r in lines]
StripAll(lines) == [i \in 1..Len(lines) |-> Strip(lines[i])]

\* the text of a number without its sign
Unsigned(g) == IF g # <<>> /\ Head(g) \in {"-", "+"} THEN Tail(g) ELSE g

\* all sequences over S of length at most n
SeqsUpTo(S, n) == UNION {[1..k -> S] : k \in 0..n}

(***************************************************************************)
(* Characters                                                              *)
(***************************************************************************)

LowerLetters == {"a","b","c","d","e","f","g","h","i","j","k","l","m",
                 "n","o","p","q","r","s","t","u","v","w","x","y","z"}

UpperLetters == {"A","B","C","D","E","F","G","H","I","J","K","L","M",
                 "N","O","P","Q","R","S","T","U","V","W","X","Y","Z"}

Letters == LowerLetters \cup UpperLetters

DigitChars == <<"0", "1", "2", "3", "4", "5", "6", "7", "8", "9">>

Digits == {DigitChars[i] : i \in 1..10}

LowerSeq == <<"a","b","c","d","e","f","g","h","i","j","k","l","m",
              "n","o","p","q","r","s","t","u","v","w","x","y","z">>

UpperSeq == <<"A","B","C","D","E","F","G","H","I","J","K","L","M",
              "N","O","P","Q","R","S","T","U","V","W","X","Y","Z">>

LowerChar(c) == IF c \in UpperLetters THEN LowerSeq[IndexOf(c, UpperSeq) + 1] ELSE c

UpperChar(c) == IF c \in LowerLetters THEN UpperSeq[IndexOf(c, LowerSeq) + 1] ELSE c

\* s.lower(), s.upper()
Lower(s) == [i \in 1..Len(s) |-> LowerChar(s[i])]

Upper(s) == [i \in 1..Len(s) |-> UpperChar(s[i])]

DigitValue(c) == IndexOf(c, DigitChars)

\* int(s) for a string of digits
RECURSIVE DigitsToInt(_)
DigitsToInt(s) ==
    IF s = <<>> THEN 0
    ELSE 10 * DigitsToInt(SubSeq(s, 1, Len(s) - 1)) + DigitValue(s[Len(s)])

\* str(n) for an integer
RECURSIVE NatToStr(_)
NatToStr(n) == IF n < 10 THEN <<DigitChars[n + 1]>>
               ELSE NatToStr(n \div 10) \o <<DigitChars[(n % 10) + 1]>>

IntToStr(n) == IF n < 0 THEN <<"-">> \o NatToStr(-n) ELSE NatToStr(n)

\* s.rfind(c), 0-based, -1 when c is not in s
RFind(s, c) == IF c \in Chars(s)
               THEN (CHOOSE i \in 1..Len(s) : s[i] = c /\ \A j \in (i + 1)..Len(s) : s[j] # c) - 1
               ELSE -1

(***************************************************************************)
(* General configuration: one_time_setup                                   *)
(***************************************************************************)

valid_file_fields == <<"s", "t", "f", "e", "j", "l">>

DefaultFileFormat == <<"%", "s", "_", "%", "t", "_", "%", "f">>

DefaultCodefiles == <<"*", ".", "R", "R", "m", "d">>

\* self.general_config_setup: id, type and default of each general field
general_config_setup ==
    << [id |-> "codefiles", type |-> "line", default |-> <<"*", ".", "R", "R", "m", "d">>],
       [id |-> "file_format", type |-> "line", default |-> <<"%", "s", "_", "%", "t", "_", "%", "f">>],
       [id |-> "course_id", type |-> "line", default |-> <<>>],
       [id |-> "roster_name_col", type |-> "line", default |-> <<"N", "a", "m", "e">>],
       [id |-> "roster_firstname_col", type |-> "line", default |-> <<"F", "i", "r", "s", "t", "N", "a", "m", "e">>],
       [id |-> "roster_lastname_col", type |-> "line", default |-> <<"L", "a", "s", "t", "N", "a", "m", "e">>],
       [id |-> "roster_email_col", type |-> "line", default |-> <<"E", "m", "a", "i", "l">>],
       [id |-> "filename_name_fmt", type |-> "line", default |-> <<"L", "a", "s", "t", ",", " ", "F", "i", "r", "s", "t">>],
       [id |-> "email_suffix", type |-> "line", default |-> <<"@", "a", "n", "d", "r", "e", "w", ".", "c", "m", "u", ".", "e", "d", "u">>] >>

\* self.specific_config_setup: id, type and default of each per-codefile field
specific_config_setup ==
    << [id |-> "aux_files", type |-> "box", default |-> <<>>],
       [id |-> "min_comments", type |-> "int", default |-> 5],
       [id |-> "min_blanks", type |-> "int", default |-> 5],
       [id |-> "max_warnings", type |-> "int", default |-> 0],
       [id |-> "max_errors", type |-> "int", default |-> 0],
       [id |-> "req_code", type |-> "box", default |-> <<>>],
       [id |-> "req_output", type |-> "box", default |-> <<>>],
       [id |-> "prohib_code", type |-> "box", default |-> <<>>],
       [id |-> "prohib_output", type |-> "box", default |-> <<>>],
       [id |-> "dropped_messages", type |-> "box", default |-> <<>>],
       [id |-> "pdf_output", type |-> "line", default |-> <<"y">>],
       [id |-> "total_points", type |-> "int", default |-> 100],
       [id |-> "code_prepend", type |-> "box", default |-> <<>>],
       [id |-> "code_append", type |-> "box", default |-> <<>>] >>

\* the text of each id
IdText ==
    [ aux_files |-> <<"a", "u", "x", "_", "f", "i", "l", "e", "s">>,
      code_append |-> <<"c", "o", "d", "e", "_", "a", "p", "p", "e", "n", "d">>,
      code_prepend |-> <<"c", "o", "d", "e", "_", "p", "r", "e", "p", "e", "n", "d">>,
      codefiles |-> <<"c", "o", "d", "e", "f", "i", "l", "e", "s">>,
      config_mod_time |-> <<"c", "o", "n", "f", "i", "g", "_", "m", "o", "d", "_", "t", "i", "m", "e">>,
      course_id |-> <<"c", "o", "u", "r", "s", "e", "_", "i", "d">>,
      dropped_messages |-> <<"d", "r", "o", "p", "p", "e", "d", "_", "m", "e", "s", "s", "a", "g", "e", "s">>,
      email_suffix |-> <<"e", "m", "a", "i", "l", "_", "s", "u", "f", "f", "i", "x">>,
      file_format |-> <<"f", "i", "l", "e", "_", "f", "o", "r", "m", "a", "t">>,
      filename_name_fmt |-> <<"f", "i", "l", "e", "n", "a", "m", "e", "_", "n", "a", "m", "e", "_", "f", "m", "t">>,
      max_errors |-> <<"m", "a", "x", "_", "e", "r", "r", "o", "r", "s">>,
      max_warnings |-> <<"m", "a", "x", "_", "w", "a", "r", "n", "i", "n", "g", "s">>,
      min_blanks |-> <<"m", "i", "n", "_", "b", "l", "a", "n", "k", "s">>,
      min_comments |-> <<"m", "i", "n", "_", "c", "o", "m", "m", "e", "n", "t", "s">>,
      pdf_output |-> <<"p", "d", "f", "_", "o", "u", "t", "p", "u", "t">>,
      prohib_code |-> <<"p", "r", "o", "h", "i", "b", "_", "c", "o", "d", "e">>,
      prohib_output |-> <<"p", "r", "o", "h", "i", "b", "_", "o", "u", "t", "p", "u", "t">>,
      req_code |-> <<"r", "e", "q", "_", "c", "o", "d", "e">>,
      req_output |-> <<"r", "e", "q", "_", "o", "u", "t", "p", "u", "t">>,
      roster_email_col |-> <<"r", "o", "s", "t", "e", "r", "_", "e", "m", "a", "i", "l", "_", "c", "o", "l">>,
      roster_firstname_col |-> <<"r", "o", "s", "t", "e", "r", "_", "f", "i", "r", "s", "t", "n", "a", "m", "e", "_", "c", "o", "l">>,
      roster_lastname_col |-> <<"r", "o", "s", "t", "e", "r", "_", "l", "a", "s", "t", "n", "a", "m", "e", "_", "c", "o", "l">>,
      roster_name_col |-> <<"r", "o", "s", "t", "e", "r", "_", "n", "a", "m", "e", "_", "c", "o", "l">>,
      total_points |-> <<"t", "o", "t", "a", "l", "_", "p", "o", "i", "n", "t", "s">> ]

\* ids = [x[0] for x in config_setup]
SetupIds(config_setup) == [i \in 1..Len(config_setup) |-> config_setup[i].id]

\* construct_config(setup_tuple), at time t
construct_config(setup_tuple, t) ==
    [k \in Chars(SetupIds(setup_tuple)) \cup {"config_mod_time"} |->
        IF k = "config_mod_time" THEN t
        ELSE setup_tuple[IndexOf(k, SetupIds(setup_tuple)) + 1].default]

\* self.global_general_config when no global AutoGrader.config exists
HardcodedGeneralConfig == construct_config(general_config_setup, 0)

(***************************************************************************)
(* set_file_format_info                                                    *)
(***************************************************************************)

\* seps = [x for x in chars if x not in "%" + self.valid_file_fields]
FormatSeps(file_format) ==
    {x \in Chars(file_format) : x # "%" /\ ~InList(x, valid_file_fields)}

\* sep = seps[0] if len(seps) == 1 else "_"
FormatSep(file_format) ==
    LET seps == FormatSeps(file_format)
    IN  IF Cardinality(seps) = 1 THEN CHOOSE x \in seps : TRUE ELSE "_"

\* x[1:] not in self.valid_file_fields  (a substring test on "stfejl")
FieldIsBad(x) == ~IsSubstr(DropFirst(x), valid_file_fields)

\* bad = [x[1:] not in ... for x in fmt] or fmt[0] == "%l" : the list is never
\* empty, so `or` yields the list and the test of fmt[0] is never evaluated
FormatBadList(fmt) == [i \in 1..Len(fmt) |-> FieldIsBad(fmt[i])]

FormatInadequate(fmt) == ~InList(<<"%", "s">>, fmt) /\ ~InList(<<"%", "e">>, fmt)

\* the condition of the `if` at line 254
FormatRejected(file_format) ==
    LET seps == FormatSeps(file_format)
        fmt  == Split(file_format, FormatSep(file_format))
        bad  == FormatBadList(fmt)
    IN  \/ Cardinality(seps) # 1
        \/ Len(fmt) < 2
        \/ \E i \in 1..Len(bad) : bad[i]
        \/ FormatInadequate(fmt)

\* lines 263-270: the decoder fields computed from sep and fmt
DecoderState(sep, fmt) ==
    [filename_separator |-> sep,
     student_name_in_file_format |-> InList(<<"%", "s">>, fmt),
     late_index_in_file_format |->
         IF InList(<<"%", "l">>, fmt) THEN IndexOf(<<"%", "l">>, fmt) ELSE -1,
     file_format_items |-> RemoveFirst(<<"%", "l">>, fmt)]

\* the separator and field list the rejected branch falls back to (lines 257-262)
FallbackSep(file_format) == "_"

\* str(value) for the int and float values of a configuration
ConfigValueText(value, type) == IF type = "int" THEN IntToStr(value) ELSE value

ConfigRecordText(id, value) == id \o <<":", " ">> \o value \o <<"\n", "\n">>

\* write_config_file(fname, config_dict): "id: value\n\n" per key, in key order
\* (the ids of the setup tuple, then config_mod_time)
RECURSIVE ConfigFieldsText(_, _)
ConfigFieldsText(cfg, config_setup) ==
    IF config_setup = <<>> THEN <<>>
    ELSE ConfigRecordText(IdText[Head(config_setup).id],
                          ConfigValueText(cfg[Head(config_setup).id], Head(config_setup).type))
         \o ConfigFieldsText(cfg, Tail(config_setup))

ConfigText(cfg, config_setup) ==
    ConfigFieldsText(cfg, config_setup)
    \o ConfigRecordText(IdText["config_mod_time"], IntToStr(cfg.config_mod_time))

GeneralConfigText(cfg) == ConfigText(cfg, general_config_setup)

\* lines 254-262: what set_file_format_info leaves in general_config, whether it
\* rewrote the local file, and the decoder fields it computed
FileFormatInfo(cfg, global_file_format, file_format) ==
    IF FormatRejected(file_format)
    THEN [rejected |-> TRUE,
          config   |-> [cfg EXCEPT !.file_format = global_file_format],
          decoder  |-> DecoderState(FallbackSep(global_file_format),
                                    Split(global_file_format,
                                          FallbackSep(global_file_format)))]
    ELSE [rejected |-> FALSE,
          config   |-> cfg,
          decoder  |-> DecoderState(FormatSep(file_format),
                                    Split(file_format, FormatSep(file_format)))]

\* lines 263-270: the decoder fields are stored
SetDecoder(d) ==
    /\ filename_separator' = d.filename_separator
    /\ file_format_items' = d.file_format_items
    /\ student_name_in_file_format' = d.student_name_in_file_format
    /\ late_index_in_file_format' = d.late_index_in_file_format

StoreFileFormatInfo(info) ==
    /\ SetDecoder(info.decoder)
    /\ general_config' = info.config
    /\ IF info.rejected
       THEN /\ warnings' = Append(warnings, "Bad 'File format' in general setup")
            /\ local_general_file' = GeneralConfigText(info.config)
       ELSE UNCHANGED <<warnings, local_general_file>>

\* set_file_format_info(file_format), the whole method
set_file_format_info(file_format) ==
    StoreFileFormatInfo(FileFormatInfo(general_config,
                                       global_general_config.file_format, file_format))

(***************************************************************************)
(* update_config_from_file                                                 *)
(***************************************************************************)

\* a configuration that is None
NoneConfig == [none |-> TRUE]

\* text.split("\n\n")
RECURSIVE SplitRecords(_)
SplitRecords(s) ==
    IF Len(s) < 2 THEN <<s>>
    ELSE IF s[1] = "\n" /\ s[2] = "\n"
         THEN << <<>> >> \o SplitRecords(SubSeq(s, 3, Len(s)))
         ELSE LET r == SplitRecords(Tail(s))
              IN  << <<Head(s)>> \o Head(r) >> \o Tail(r)

NonEmpty(t) == Len(t) > 0

\* [a-zA-Z_0-9]
WordChars == Letters \cup Digits \cup {"_"}

\* the length of the longest prefix of s made of word characters
RECURSIVE WordRun(_)
WordRun(s) == IF s # <<>> /\ Head(s) \in WordChars THEN 1 + WordRun(Tail(s)) ELSE 0

\* "^\s*([a-zA-Z_0-9]+):\s*((.|\n)*)" on a text whose leading whitespace is gone and
\* whose first n characters are word characters
HeaderAt(s, n) ==
    IF n >= 1 /\ Len(s) > n /\ s[n + 1] = ":"
    THEN [matched |-> TRUE, id |-> SubSeq(s, 1, n),
          value |-> LStrip(SubSeq(s, n + 2, Len(s)))]
    ELSE [matched |-> FALSE, id |-> <<>>, value |-> <<>>]

HeaderOf(s) == HeaderAt(s, WordRun(s))

\* re.header.search(line)
HeaderSearch(line) == HeaderOf(LStrip(line))

\* lines 479-482: an empty value becomes a blank, one final newline is dropped
StoredValue(value) ==
    IF value = <<>> THEN <<" ">>
    ELSE IF value[Len(value)] = "\n" THEN SubSeq(value, 1, Len(value) - 1)
    ELSE value

\* int(value) does not raise ValueError
IntValid(v) ==
    /\ Unsigned(Strip(v)) # <<>>
    /\ Chars(Unsigned(Strip(v))) \subseteq Digits

\* int(value)
IntOf(v) ==
    (IF Head(Strip(v)) = "-" THEN -1 ELSE 1) * DigitsToInt(Unsigned(Strip(v)))

\* the ids of config_setup that are written as the text id
IdsWritten(id, config_setup) ==
    {i \in 1..Len(config_setup) : IdText[config_setup[i].id] = id}

\* the record stored without the try of lines 492-498: an integer field takes 0 when its
\* value is not an integer
StoreFieldOrZero(acc, field, value) ==
    IF field.type = "int"
    THEN [acc EXCEPT !.config[field.id] = IF IntValid(value) THEN IntOf(value) ELSE 0]
    ELSE [acc EXCEPT !.config[field.id] = value]

\* lines 483-505: one record whose id and value have been read; id is one of the
\* ids of config_setup and field is its entry
StoreField(acc, field, value) ==
    IF field.type = "int"
    THEN IF IntValid(value)
         THEN [acc EXCEPT !.config[field.id] = IntOf(value)]
         ELSE [acc EXCEPT !.warnings = Append(@, "Bad config. info")]
    ELSE [acc EXCEPT !.config[field.id] = value]

\* lines 483-505: one record whose id and value have been read
StoreRecord(acc, id, value, config_setup) ==
    IF Cardinality(IdsWritten(id, config_setup)) # 1 /\ id # IdText["config_mod_time"]
    THEN [acc EXCEPT !.warnings = Append(@, "Bad config info")]
    ELSE IF id = IdText["config_mod_time"] THEN acc
    ELSE StoreField(acc, config_setup[CHOOSE i \in IdsWritten(id, config_setup) : TRUE],
                    value)

\* lines 470-505: one record of the file
ReadRecord(acc, colon, config_setup) ==
    IF ~colon.matched
    THEN [acc EXCEPT !.status = "returned None", !.config = NoneConfig,
                     !.warnings = Append(@, "Bad file format")]
    ELSE StoreRecord(acc, colon.id, StoredValue(colon.value), config_setup)

\* lines 469-506: the loop over the records
RECURSIVE ReadRecords(_, _, _)
ReadRecords(acc, text, config_setup) ==
    IF text = <<>> \/ acc.status # "reading" THEN acc
    ELSE ReadRecords(ReadRecord(acc, HeaderSearch(Head(text)), config_setup),
                     Tail(text), config_setup)

\* lines 464-506: the file has text; config_dict is a dictionary
ReadConfig(file, mtime, config_dict, config_setup, shown) ==
    ReadRecords([status |-> "reading", written |-> FALSE, file |-> file,
                 config |-> [config_dict EXCEPT !.config_mod_time = mtime],
                 warnings |-> shown],
                SelectSeq(SplitRecords(file), NonEmpty), config_setup)

\* lines 458-461: the file is missing or empty; config_dict is a dictionary
WriteDefaults(config_dict, config_setup, t, shown) ==
    [status |-> "returned", written |-> TRUE,
     file |-> ConfigText([config_dict EXCEPT !.config_mod_time = t], config_setup),
     config |-> [config_dict EXCEPT !.config_mod_time = t],
     warnings |-> shown]

\* config_dict['config_mod_time'] = ... raises TypeError when config_dict is None
ConfigRaised(file, shown) ==
    [status |-> "raised", written |-> FALSE, file |-> file, config |-> NoneConfig,
     warnings |-> shown]

\* the return statement of line 506
ConfigReturn(acc) == IF acc.status = "reading" THEN [acc EXCEPT !.status = "returned"] ELSE acc

\* messagebox.showwarning("Bad file", ...) of line 455
BadFileShown(file, write_if_missing) ==
    IF file = Absent /\ ~write_if_missing THEN <<"Bad file">> ELSE <<>>

\* update_config_from_file(fname, config_dict, config_setup, write_if_missing) at
\* time t; file is the text of fname (Absent: it cannot be opened) and mtime is
\* its modification time
update_config_from_file(file, mtime, config_dict, config_setup, write_if_missing, t) ==
    IF config_dict = NoneConfig
    THEN ConfigRaised(file, BadFileShown(file, write_if_missing))
    ELSE IF file = Absent \/ file = <<>>
    THEN WriteDefaults(config_dict, config_setup, t, BadFileShown(file, write_if_missing))
    ELSE ConfigReturn(ReadConfig(file, mtime, config_dict, config_setup, <<>>))

\* self.roster_fullname / self.roster_email when they are None
NoneList == << <<"None">> >>

\* the resolver's state before any directory has been read
ResolverUnused ==
    /\ dir_listing = <<>>
    /\ codefiles = <<>>
    /\ codefile_index = 0
    /\ roster_fullname = NoneList
    /\ roster_email = NoneList
    /\ fullname = <<>>
    /\ filename = <<>>
    /\ version = <<>>
    /\ versioned_filename = <<>>
    /\ timestamp = <<>>
    /\ student_name = <<>>
    /\ email = <<>>
    /\ file_label = <<>>
    /\ res_pc = "unused"

\* points is None; a number is held exactly, as num / den with den a power of ten
NonePoints == [isNone |-> TRUE, num |-> 0, den |-> 1]

\* the rule engine's state before any rule has been evaluated
RuleUnused ==
    /\ rule_config = [req |-> <<>>, prohib |-> <<>>, code_or_output |-> "code"]
    /\ rule_text = <<>>
    /\ rule_result = [status |-> "none", points_docked |-> NonePoints, out_analysis |-> <<>>]
    /\ rule_pc = "unused"

\* self.specific_configs when it is None
NoneSpecific == [isNone |-> TRUE, entries |-> <<>>]

\* the per-codefile configuration before any directory has been set up
ConfigUnused ==
    /\ global_specific_config = construct_config(specific_config_setup, 0)
    /\ specific_configs = NoneSpecific
    /\ local_specific_files = <<>>
    /\ file_mtime = [general |-> 0, specific |-> <<>>]
    /\ roster_id = "None"
    /\ now = 0
    /\ cfg_input = [visited |-> 0]
    /\ cfg_pc = "unused"

\* self.active_letter_file when it is None
NoPath == <<>>

\* run_all has not been issued
NoRun == [status |-> "none", students |-> 0, iterations |-> <<>>, artifacts |-> <<>>,
          previous |-> "none", previous_invoked |-> {}, changed |-> FALSE]

\* the grading runs before any directory has been resolved for them
RunUnused ==
    /\ codefile = <<>>
    /\ chosen_file = <<>>
    /\ current_code = <<>>
    /\ submissions = <<>>
    /\ disk = [dirs |-> {}, files |-> <<>>]
    /\ backend = FALSE
    /\ active_letter_file = NoPath
    /\ run_log = NoRun

\* parse_one_filename has not been handed a name
DecodeUnused ==
    /\ parse_name = <<>>
    /\ parse_rtn = [status |-> "none"]
    /\ parse_pc = "unused"

\* no classifier has been called
ClassifyUnused ==
    /\ post_call = [classifier |-> "none"]
    /\ post_result = [status |-> "none"]
    /\ post_pc = "unused"

\* run_one has not been followed through its texts
GradeUnused ==
    /\ grade_call = [codefile |-> <<>>]
    /\ grade_result = [status |-> "none"]
    /\ grade_pc = "unused"

AuxUnused == DecodeUnused /\ ClassifyUnused /\ GradeUnused

\* the state of the areas a specification about the decoder or the resolver leaves alone
RestUnused == RuleUnused /\ ConfigUnused /\ RunUnused /\ AuxUnused

(***************************************************************************)
(* Specification SpecFormat: format strings reaching set_file_format_info   *)
(***************************************************************************)

\* the pieces format strings are built from
FormatTokens ==
    { <<"%", "s">>, <<"%", "f">>, <<"%", "l">>, <<"%", "q">>, <<"s">>, <<"_">>, <<"-">> }

CandidateFormats == {Flatten(ts) : ts \in SeqsUpTo(FormatTokens, MaxFmtTokens)}

\* file_format values of the global general configuration (hardcoded default, or
\* the value a global AutoGrader.config gives)
GlobalFormats ==
    { DefaultFileFormat,
      <<"%", "s", "-", "%", "t", "-", "%", "f">>,
      <<"%", "e", "_", "%", "l", "_", "%", "f">> }

InitFormat ==
    /\ \E g \in GlobalFormats :
          global_general_config = [HardcodedGeneralConfig EXCEPT !.file_format = g]
    /\ \E ff \in CandidateFormats :
          general_config = [global_general_config EXCEPT !.file_format = ff]
    /\ filename_separator = "None"
    /\ file_format_items = <<>>
    /\ student_name_in_file_format = FALSE
    /\ late_index_in_file_format = -1
    /\ local_general_file = Absent
    /\ warnings = <<>>
    /\ file_format_arg = <<>>
    /\ fmt_pc = "call"
    /\ ResolverUnused
    /\ RestUnused

\* update_general_config line 305 / update_for_general_config_nongui line 1896
CallSetFileFormatInfo ==
    /\ fmt_pc = "call"
    /\ set_file_format_info(general_config.file_format)
    /\ file_format_arg' = general_config.file_format
    /\ fmt_pc' = "set"
    /\ UNCHANGED <<global_general_config, resVars, restVars>>

NextFormat == CallSetFileFormatInfo

SpecFormat == InitFormat /\ [][NextFormat]_vars

(***************************************************************************)
(* Claims about set_file_format_info (under SpecFormat)                    *)
(***************************************************************************)

FormatTags == { <<"%", c>> : c \in {"s", "t", "e", "f", "j", "l"} }

\* a format string as the specification describes a valid one: fields that are
\* all tags, joined by one separator character, at least two of them, the late
\* tag not first, a student or an email tag among them
ValidFormatString(ff) ==
    \E sep \in Chars(ff) \ ({"%"} \cup Chars(valid_file_fields)) :
        LET fields == Split(ff, sep)
        IN  /\ Len(fields) >= 2
            /\ \A i \in 1..Len(fields) : fields[i] \in FormatTags
            /\ fields[1] # <<"%", "l">>
            /\ \/ InList(<<"%", "s">>, fields)
               \/ InList(<<"%", "e">>, fields)

FormatWasAccepted == fmt_pc = "set" /\ warnings = <<>>

FormatWasRejected == fmt_pc = "set" /\ warnings # <<>>

\* C6: set_file_format_info accepts a format string (no warning, no fallback)
\* if and only if it has exactly one distinct separator, at least 2 fields, only
\* the tags %s %t %e %f %j %l as fields, %l not first, and %s or %e present.
C6_AcceptsExactlyValidFormats ==
    fmt_pc = "set" => (warnings = <<>> <=> ValidFormatString(file_format_arg))

\* the decoder state an accepted parse of format string ff leaves
ParseOfFormat(ff) == DecoderState(FormatSep(ff), Split(ff, FormatSep(ff)))

\* C7: when set_file_format_info rejects a format string, the active general
\* configuration's file_format becomes the global one, the corrected
\* configuration is written to the local general config file, and the decoder
\* state (separator, ordered field list) is exactly the parse of the global format.
C7_RejectFallsBackToGlobalParse ==
    FormatWasRejected =>
        /\ general_config.file_format = global_general_config.file_format
        /\ local_general_file = GeneralConfigText(general_config)
        /\ filename_separator =
               ParseOfFormat(global_general_config.file_format).filename_separator
        /\ file_format_items =
               ParseOfFormat(global_general_config.file_format).file_format_items

(***************************************************************************)
(* parse_one_filename                                                      *)
(***************************************************************************)

\* re_dotExt = "(.+)([.][a-zA-Z]+$)" searched in value: the groups, or no match
DotExtSearch(value) ==
    LET k == RFind(value, ".") + 1
    IN  IF /\ k > 1
           /\ k < Len(value)
           /\ \A i \in (k + 1)..Len(value) : value[i] \in Letters
        THEN [matched |-> TRUE, stem |-> SubSeq(value, 1, k - 1),
              ext |-> SubSeq(value, k, Len(value))]
        ELSE [matched |-> FALSE, stem |-> <<>>, ext |-> <<>>]

\* re_version = "(.+)(-[0-9]{1,2}$)" searched in fname: the groups, or no match
VersionSearch(fname) ==
    LET n == Len(fname)
    IN  IF n >= 3 /\ fname[n - 1] = "-" /\ fname[n] \in Digits
        THEN [matched |-> TRUE, base |-> SubSeq(fname, 1, n - 2),
              suffix |-> SubSeq(fname, n - 1, n)]
        ELSE IF n >= 4 /\ fname[n - 2] = "-" /\ fname[n - 1] \in Digits /\ fname[n] \in Digits
        THEN [matched |-> TRUE, base |-> SubSeq(fname, 1, n - 3),
              suffix |-> SubSeq(fname, n - 2, n)]
        ELSE [matched |-> FALSE, base |-> <<>>, suffix |-> <<>>]

\* rtn as initialised at lines 803-804; raised marks the AttributeError of line 839
EmptyRecord ==
    [filename |-> <<>>, version |-> 0, timestamp |-> <<>>, student_name |-> <<>>,
     email |-> <<>>, late |-> FALSE, raised |-> FALSE]

\* lines 841-846: the version suffix of the stem
ApplyVersion(rtn, value, ext, vers) ==
    IF ~vers.matched
    THEN [rtn EXCEPT !.filename = value]
    ELSE [rtn EXCEPT !.filename = vers.base \o ext,
                     !.version = DigitsToInt(DropFirst(vers.suffix))]

\* lines 834-846: the filename field
ApplyFilename(rtn, value, dot) ==
    IF ~dot.matched THEN [rtn EXCEPT !.raised = TRUE]
    ELSE ApplyVersion(rtn, value, dot.ext, VersionSearch(dot.stem))

\* one pass of the loop body at lines 822-846
ApplyField(rtn, field, value) ==
    IF rtn.raised THEN rtn
    ELSE IF field = <<"%", "j">> THEN rtn
    ELSE IF field = <<"%", "t">> THEN [rtn EXCEPT !.timestamp = value]
    ELSE IF field = <<"%", "s">> THEN [rtn EXCEPT !.student_name = value]
    ELSE IF field = <<"%", "e">> THEN [rtn EXCEPT !.email = value]
    ELSE ApplyFilename(rtn, value, DotExtSearch(value))

RECURSIVE ApplyFields(_, _, _, _)
ApplyFields(rtn, fields, parts, element) ==
    IF element > Len(parts) THEN rtn
    ELSE ApplyFields(ApplyField(rtn, fields[element], parts[element]),
                     fields, parts, element + 1)

\* the test at line 816: the part count fits neither the format nor the short form
PartCountRejected(name_n, fmt_n) == name_n > fmt_n \/ (name_n < fmt_n /\ name_n # 2)

\* short = True if name_n < fmt_n and not late_dropped else False  (line 820)
IsShortForm(name_n, fmt_n, late_dropped) == name_n < fmt_n /\ ~late_dropped

\* the test at lines 808-810: the part at the late position is "late"
LateDropped(parts0, late_index) ==
    /\ late_index >= 0
    /\ late_index < Len(parts0)
    /\ Upper(parts0[late_index + 1]) = <<"L", "A", "T", "E">>

\* lines 816-847, with the parts left after the late field was handled
DecodeParts(parts, items, late_dropped) ==
    IF PartCountRejected(Len(parts), Len(items))
    THEN [EmptyRecord EXCEPT !.late = late_dropped]
    ELSE ApplyFields([EmptyRecord EXCEPT !.late = late_dropped],
                     IF IsShortForm(Len(parts), Len(items), late_dropped)
                     THEN << <<"%", "s">>, <<"%", "f">> >>
                     ELSE items,
                     parts, 1)

\* lines 806-847, with the parts of the name
DecodeSplit(parts0, items, late_index) ==
    IF LateDropped(parts0, late_index)
    THEN DecodeParts(RemoveFirst(parts0[late_index + 1], parts0), items, TRUE)
    ELSE DecodeParts(parts0, items, FALSE)

\* parse_one_filename(name) with the decoder state given
ParseOneFilenameWith(name, sep, items, late_index) ==
    DecodeSplit(Split(name, sep), items, late_index)

parse_one_filename(name) ==
    ParseOneFilenameWith(name, filename_separator, file_format_items,
                         late_index_in_file_format)

(***************************************************************************)
(* parse_codefile_names                                                    *)
(***************************************************************************)

\* get_extension(fname): from the last period on
get_extension(fname) == SubSeq(fname, RFind(fname, ".") + 1, Len(fname))

\* lst.count(x)
Count(x, lst) == Cardinality({i \in 1..Len(lst) : lst[i] = x})

EmptyStudents ==
    [fullname |-> <<>>, filename |-> <<>>, version |-> <<>>,
     versioned_filename |-> <<>>, timestamp |-> <<>>, student_name |-> <<>>,
     email |-> <<>>, file_label |-> <<>>, raised |-> FALSE]

\* lines 884-893: fill in the student name from the roster; mail is the local
\* `email` (the lowered decoded one, or the roster's)
BackfillName(e1, sname, mail, r_fullname, r_email) ==
    IF /\ e1.email # <<>>
       /\ e1.student_name = <<>>
       /\ r_fullname # NoneList
       /\ r_email # NoneList
       /\ Count(mail, r_email) > 0
    THEN [elements |-> [e1 EXCEPT !.student_name = r_fullname[IndexOf(mail, r_email) + 1]],
          sname |-> r_fullname[IndexOf(mail, r_email) + 1],
          email |-> mail]
    ELSE [elements |-> e1, sname |-> sname, email |-> mail]

\* lines 871-893: fill in email or student name from the roster
RosterBackfill(elements, r_fullname, r_email) ==
    IF /\ elements.student_name # <<>>
       /\ elements.email = <<>>
       /\ r_email # NoneList
       /\ r_fullname # NoneList
       /\ Count(Lower(elements.student_name), r_fullname) > 0
    THEN BackfillName(
             [elements EXCEPT
                 !.email = r_email[IndexOf(Lower(elements.student_name), r_fullname) + 1]],
             Lower(elements.student_name),
             r_email[IndexOf(Lower(elements.student_name), r_fullname) + 1],
             r_fullname, r_email)
    ELSE BackfillName(elements, Lower(elements.student_name), Lower(elements.email),
                      r_fullname, r_email)

\* lines 894-904: the dropdown label
FileLabel(elements, name_in_format) ==
    LET who == IF name_in_format \/ elements.email = <<>>
               THEN elements.student_name ELSE elements.email
    IN  IF elements.version > 0
        THEN who \o <<" ", "(">> \o IntToStr(elements.version) \o <<")">>
        ELSE who

\* lines 908-919: where this identity already sits in the lists, or -1
IdentityLoc(st, sname, mail) ==
    IF sname # <<>>
    THEN IF Count(sname, st.student_name) = 0 THEN -1
         ELSE IndexOf(sname, st.student_name)
    ELSE IF Count(mail, st.email) = 0 THEN -1
         ELSE IndexOf(mail, st.email)

\* lines 921-927: the versioned file name
VersionedFilename(elements) ==
    IF elements.version = 0 THEN elements.filename
    ELSE LET ext == get_extension(elements.filename)
         IN  SubSeq(elements.filename, 1, Len(elements.filename) - Len(ext))
             \o <<"-">> \o IntToStr(elements.version) \o ext

\* lines 937: an entry is replaced only by a later version
ReplacesEntry(old_version, new_version) == old_version < new_version

\* lines 928-945: append a new entry, or replace the entry at loc
AddEntry(st, fname, el, label, loc, vfn) ==
    IF loc = -1
    THEN [st EXCEPT !.fullname = Append(@, fname),
                    !.filename = Append(@, el.filename),
                    !.version = Append(@, el.version),
                    !.versioned_filename = Append(@, vfn),
                    !.timestamp = Append(@, el.timestamp),
                    !.student_name = Append(@, el.student_name),
                    !.email = Append(@, el.email),
                    !.file_label = Append(@, label)]
    ELSE IF ReplacesEntry(st.version[loc + 1], el.version)
    THEN [st EXCEPT !.fullname[loc + 1] = fname,
                    !.filename[loc + 1] = el.filename,
                    !.version[loc + 1] = el.version,
                    !.versioned_filename[loc + 1] = vfn,
                    !.timestamp[loc + 1] = el.timestamp,
                    !.student_name[loc + 1] = el.student_name,
                    !.email[loc + 1] = el.email,
                    !.file_label[loc + 1] = label]
    ELSE st

\* lines 894-945, with the backfilled record b
AddBackfilled(st, fname, b, name_in_format) ==
    AddEntry(st, fname, b.elements, FileLabel(b.elements, name_in_format),
             IdentityLoc(st, b.sname, b.email), VersionedFilename(b.elements))

\* lines 869-945, with the decoded record
AddParsed(st, fname, parsed, name_in_format, r_fullname, r_email) ==
    IF st.raised THEN st
    ELSE IF parsed.raised THEN [st EXCEPT !.raised = TRUE]
    ELSE IF Len(parsed.filename) = 0 THEN st
    ELSE AddBackfilled(st, fname, RosterBackfill(parsed, r_fullname, r_email),
                       name_in_format)

\* one pass of the loop body at lines 866-945
AddOneName(st, fname, sep, items, late_index, name_in_format, r_fullname, r_email) ==
    AddParsed(st, fname, ParseOneFilenameWith(fname, sep, items, late_index),
              name_in_format, r_fullname, r_email)

RECURSIVE AddNames(_, _, _, _, _, _, _, _)
AddNames(st, names, sep, items, late_index, name_in_format, r_fullname, r_email) ==
    IF names = <<>> THEN st
    ELSE AddNames(AddOneName(st, Head(names), sep, items, late_index,
                             name_in_format, r_fullname, r_email),
                  Tail(names), sep, items, late_index, name_in_format,
                  r_fullname, r_email)

\* parse_codefile_names(names): the lists it leaves
ParseCodefileNames(names) ==
    AddNames(EmptyStudents, names, filename_separator, file_format_items,
             late_index_in_file_format, student_name_in_file_format,
             roster_fullname, roster_email)

(***************************************************************************)
(* get_student_files                                                       *)
(***************************************************************************)

\* s ends with tail, ignoring case
EndsWithNoCase(s, tail) ==
    /\ Len(s) >= Len(tail)
    /\ Lower(SubSeq(s, Len(s) - Len(tail) + 1, Len(s))) = Lower(tail)

\* codefile_re (lines 965-970) searched in file: separator, base, an optional
\* -N or -NN, any one character (the unescaped "."), the extension, end of name
MatchesCodefile(file, sep, selected) ==
    LET k    == RFind(selected, ".") + 1
        base == SubSeq(selected, 1, k - 1)
        ext  == SubSeq(selected, k + 1, Len(selected))
        n    == Len(file)
        e    == Len(ext)
    IN  \E vlen \in {0, 2, 3} :
            LET total == 1 + Len(base) + vlen + 1 + e
                start == n - total + 1
            IN  /\ n >= total
                /\ EndsWithNoCase(file, ext)
                /\ Lower(SubSeq(file, start, start + Len(base))) = Lower(<<sep>> \o base)
                /\ vlen > 0 =>
                      /\ file[start + Len(base) + 1] = "-"
                      /\ \A i \in (start + Len(base) + 2)..(start + Len(base) + vlen) :
                             file[i] \in Digits

\* rtn of get_student_files: the listed files that match the selected codefile
MatchingFiles(listing, sep, selected) ==
    SelectSeq(listing, LAMBDA f : MatchesCodefile(f, sep, selected))

\* get_student_files(forceFirst), the whole method
SetStudents(st) ==
    /\ fullname' = st.fullname
    /\ filename' = st.filename
    /\ version' = st.version
    /\ versioned_filename' = st.versioned_filename
    /\ timestamp' = st.timestamp
    /\ student_name' = st.student_name
    /\ email' = st.email
    /\ file_label' = st.file_label
    /\ res_pc' = IF st.raised THEN "raised" ELSE "resolved"

get_student_files(forceFirst) ==
    IF codefiles = NoneList
    THEN SetStudents(EmptyStudents)
    ELSE SetStudents(ParseCodefileNames(
             MatchingFiles(dir_listing, filename_separator,
                           codefiles[(IF forceFirst THEN 0 ELSE codefile_index) + 1])))

(***************************************************************************)
(* Specification SpecResolve: a directory of submissions being resolved     *)
(***************************************************************************)

MaxDirFiles == 2

Str_al == <<"a", "l">>
Str_Al == <<"A", "l">>
Str_bo == <<"b", "o">>
Str_t1 == <<"t", "1">>
Str_e1 == <<"e", "1">>
Str_hwR == <<"h", "w", ".", "R">>
Str_hw1R == <<"h", "w", "-", "1", ".", "R">>
Str_hw2R == <<"h", "w", "-", "2", ".", "R">>
Str_hwsas == <<"h", "w", ".", "s", "a", "s">>
Str_hwpy == <<"h", "w", ".", "p", "y">>

\* the raw names a course-management system may have left in the directory
SubmissionNames ==
    {Join(<<s, f>>, <<"_">>) : s \in {Str_al, Str_Al, Str_bo},
                               f \in {Str_hwR, Str_hw1R, Str_hw2R}}
    \cup
    {Join(<<s, m, f>>, <<"_">>) : s \in {Str_al, Str_Al, Str_bo},
                                  m \in {Str_t1, Str_e1},
                                  f \in {Str_hwR, Str_hw1R, Str_hw2R}}

ResolveFormats ==
    { DefaultFileFormat,
      <<"%", "e", "_", "%", "f">>,
      <<"%", "s", "_", "%", "e", "_", "%", "f">> }

\* the decoder as an accepted set_file_format_info(ff) leaves it
DecoderIs(ff) ==
    LET d == DecoderState(FormatSep(ff), Split(ff, FormatSep(ff)))
    IN  /\ filename_separator = d.filename_separator
        /\ file_format_items = d.file_format_items
        /\ student_name_in_file_format = d.student_name_in_file_format
        /\ late_index_in_file_format = d.late_index_in_file_format

InitResolve ==
    /\ global_general_config = HardcodedGeneralConfig
    /\ \E ff \in ResolveFormats :
          /\ general_config = [HardcodedGeneralConfig EXCEPT
                                  !.file_format = ff, !.codefiles = Str_hwR]
          /\ DecoderIs(ff)
          /\ file_format_arg = ff
    /\ local_general_file = Absent
    /\ warnings = <<>>
    /\ fmt_pc = "set"
    /\ dir_listing = <<>>
    /\ codefiles = <<Str_hwR>>
    /\ codefile_index = 0
    /\ \/ roster_fullname = NoneList /\ roster_email = NoneList
       \/ roster_fullname = <<Str_al>> /\ roster_email = <<Str_e1>>
    /\ fullname = <<>>
    /\ filename = <<>>
    /\ version = <<>>
    /\ versioned_filename = <<>>
    /\ timestamp = <<>>
    /\ student_name = <<>>
    /\ email = <<>>
    /\ file_label = <<>>
    /\ res_pc = "resolved"
    /\ RestUnused

\* a submission file appears in the directory
NewSubmission ==
    /\ Len(dir_listing) < MaxDirFiles
    /\ \E name \in SubmissionNames :
          /\ ~InList(name, dir_listing)
          /\ dir_listing' = Append(dir_listing, name)
    /\ res_pc' = "listed"
    /\ UNCHANGED <<fmtVars, codefiles, codefile_index, roster_fullname, roster_email,
                   studentVars, restVars>>

\* get_student_files(forceFirst=True), as setup_for_new_dir calls it
GetStudentFiles ==
    /\ res_pc = "listed"
    /\ get_student_files(TRUE)
    /\ UNCHANGED <<fmtVars, dir_listing, codefiles, codefile_index, roster_fullname,
                   roster_email, restVars>>

NextResolve == NewSubmission \/ GetStudentFiles

SpecResolve == InitResolve /\ [][NextResolve]_vars

(***************************************************************************)
(* Claims about parse_codefile_names (under SpecResolve)                   *)
(***************************************************************************)

\* two records have the same identity: the same student name, or the same email
\* when the student name is empty
SameIdentity(n1, e1, n2, e2) ==
    \/ n1 # <<>> /\ n1 = n2
    \/ n1 = <<>> /\ n2 = <<>> /\ e1 = e2

\* the same, with names and emails compared without case (the resolver lowers
\* both before it looks an identity up)
SameIdentityNoCase(n1, e1, n2, e2) ==
    SameIdentity(Lower(n1), Lower(e1), Lower(n2), Lower(e2))

\* C3: after parse_codefile_names has processed any list of raw filenames, the
\* resolved student list never holds two entries with the same identity (the same
\* student name, or the same email when the student name is empty).
C3_NoTwoEntriesPerIdentity ==
    res_pc = "resolved" =>
        \A i, j \in 1..Len(student_name) :
            i # j => ~SameIdentity(student_name[i], email[i], student_name[j], email[j])

\* the records decoded from the names parse_codefile_names was given (the ones
\* with a filename), each with the roster's backfill
DecodedRecords ==
    {RosterBackfill(parse_one_filename(f), roster_fullname, roster_email).elements :
        f \in {g \in Chars(MatchingFiles(dir_listing, filename_separator, codefiles[1])) :
                  Len(parse_one_filename(g).filename) > 0}}

\* C4: for each identity, the retained entry is the decoded record with the
\* maximum version among that identity's filenames, whatever the listing order.
\* Stated so that it does not depend on whether identities are compared with or
\* without case: every decoded record has an entry of its identity, and no entry
\* has a lower version than a decoded record of exactly its identity.
C4_RetainsMaximumVersion ==
    res_pc = "resolved" =>
        \A r \in DecodedRecords :
            /\ \E i \in 1..Len(student_name) :
                   SameIdentityNoCase(student_name[i], email[i], r.student_name, r.email)
            /\ \A i \in 1..Len(student_name) :
                   SameIdentity(student_name[i], email[i], r.student_name, r.email)
                       => version[i] >= r.version

(***************************************************************************)
(* Rule engine: pull_off_points                                            *)
(***************************************************************************)

\* [ ]* of re_points: leading blanks are skipped
RECURSIVE SkipBlanks(_)
SkipBlanks(s) == IF s # <<>> /\ Head(s) = " " THEN SkipBlanks(Tail(s)) ELSE s

ZeroPoints == [isNone |-> FALSE, num |-> 0, den |-> 1]

\* [-+]?[0-9.]+? of re_points
PointsTextMatches(g) ==
    Unsigned(g) # <<>> /\ Chars(Unsigned(g)) \subseteq (Digits \cup {"."})

\* float(g) does not raise ValueError (g already matches [-+]?[0-9.]+)
FloatValid(g) ==
    /\ Cardinality({i \in 1..Len(g) : g[i] = "."}) <= 1
    /\ Chars(g) \cap Digits # {}

RECURSIVE Pow10(_)
Pow10(n) == IF n = 0 THEN 1 ELSE 10 * Pow10(n - 1)

\* the number of digits after the decimal point
FracLen(body) == IF "." \in Chars(body) THEN Len(body) - (IndexOf(".", body) + 1) ELSE 0

\* float(g)
FloatOf(g) ==
    [isNone |-> FALSE,
     num    |-> (IF g # <<>> /\ Head(g) = "-" THEN -1 ELSE 1)
                    * DigitsToInt(RemoveFirst(".", Unsigned(g))),
     den    |-> Pow10(FracLen(Unsigned(g)))]

\* self.re_points.search(line), given the 1-based position k of the first "}" (0: none)
RePointsAt(line, k) ==
    IF /\ k > 0
       /\ Head(line) = "{"
       /\ PointsTextMatches(SubSeq(line, 2, k - 1))
       /\ SkipBlanks(SubSeq(line, k + 1, Len(line))) # <<>>
    THEN [matched |-> TRUE, g1 |-> SubSeq(line, 2, k - 1),
          g2 |-> SkipBlanks(SubSeq(line, k + 1, Len(line)))]
    ELSE [matched |-> FALSE, g1 |-> <<>>, g2 |-> <<>>]

\* self.re_points.search(line)
re_points(line) ==
    RePointsAt(line, IF "}" \in Chars(line) THEN IndexOf("}", line) + 1 ELSE 0)

PulledOff(line, temp) ==
    IF ~temp.matched
    THEN [points |-> NonePoints, line |-> line]
    ELSE [points |-> IF FloatValid(temp.g1) THEN FloatOf(temp.g1) ELSE NonePoints,
          line   |-> temp.g2]

\* pull_off_points(line): (points, line)
pull_off_points(line) == PulledOff(line, re_points(line))

(***************************************************************************)
(* Rule engine: req_and_prohib                                             *)
(*                                                                         *)
(* Regular expressions are modelled over the alphabet the rules of the     *)
(* model are written in: a character that stands for itself, "." (any      *)
(* character but a newline) and the group parentheses "(" and ")".         *)
(* A message of out_analysis is a record of its pieces: the points printed *)
(* (NonePoints when the message prints none), its wording and the rule     *)
(* text it quotes.                                                         *)
(***************************************************************************)

\* re.sub('\r\n', '\n', text)
CharsAt(t, positions) == [k \in 1..Len(positions) |-> t[positions[k]]]

\* the positions that stay: every one but a "\r" right before a "\n"
NotCRBeforeLF(t) ==
    SelectSeq([i \in 1..Len(t) |-> i],
              LAMBDA i : ~(t[i] = "\r" /\ i < Len(t) /\ t[i + 1] = "\n"))

SubCRLF(t) == CharsAt(t, NotCRBeforeLF(t))

\* re.compile(p) does not raise re.error: the parentheses of p balance
RECURSIVE ParensBalance(_, _)
ParensBalance(p, depth) ==
    IF p = <<>> THEN depth = 0
    ELSE IF Head(p) = "(" THEN ParensBalance(Tail(p), depth + 1)
    ELSE IF Head(p) = ")" THEN depth > 0 /\ ParensBalance(Tail(p), depth - 1)
    ELSE ParensBalance(Tail(p), depth)

RegexCompiles(p) == ParensBalance(p, 0)

IsRegexAtom(c) == c \notin {"(", ")"}

\* what one position of the pattern accepts
AtomMatches(a, c) == IF a = "." THEN c # "\n" ELSE a = c

AtomsSearch(atoms, t) ==
    \E i \in 0..(Len(t) - Len(atoms)) :
        \A j \in 1..Len(atoms) : AtomMatches(atoms[j], t[i + j])

\* re.compile(p).search(t) is not None
RegexSearch(p, t) == AtomsSearch(SelectSeq(p, IsRegexAtom), t)

\* line[0] == line[-1] and line[0] in "\"'"
IsQuoted(line) == Head(line) = line[Len(line)] /\ Head(line) \in {"\"", "'"}

\* line[1:-2]
QuotedSlice(line) == SubSeq(line, 2, Len(line) - 2)

Message(points, wording, what, line) ==
    [points |-> points, wording |-> wording, what |-> what, line |-> line]

\* points_docked += points
AddPoints(docked, points) ==
    [isNone |-> FALSE,
     num    |-> docked.num * points.den + points.num * docked.den,
     den    |-> docked.den * points.den]

\* the state of one req_and_prohib call: its two locals and how far it has got
StartOfRules == [status |-> "running", points_docked |-> ZeroPoints, out_analysis |-> <<>>]

BadRegexReturn ==
    [status |-> "running", points_docked |-> [isNone |-> FALSE, num |-> -9999, den |-> 1],
     out_analysis |-> <<Message(NonePoints, "Bad Regular expression", "", <<>>)>>]

\* lines 1526-1536: a required rule that was not found
ReqNotOk(acc, points, line, what) ==
    IF points.isNone
    THEN [acc EXCEPT !.out_analysis = Append(@, Message(NonePoints, "Missing", what, line))]
    ELSE [acc EXCEPT
            !.out_analysis = Append(@, Message(points,
                                 IF points.num < 0 THEN "points for missing"
                                                   ELSE "points for avoided", what, line)),
            !.points_docked = AddPoints(@, points)]

\* lines 1513-1536: one required rule whose points have been pulled off
ReqPulled(acc, points, line, text, what) ==
    IF IsQuoted(line)
    THEN IF Len(line) < 3 THEN acc
         ELSE IF IsSubstr(QuotedSlice(line), text) THEN acc
         ELSE ReqNotOk(acc, points, line, what)
    ELSE IF ~RegexCompiles(line) THEN [BadRegexReturn EXCEPT !.status = "returned"]
    ELSE IF RegexSearch(line, text) THEN acc
    ELSE ReqNotOk(acc, points, line, what)

ReqPulledOff(acc, pulled, text, what) == ReqPulled(acc, pulled.points, pulled.line, text, what)

\* lines 1509-1536: the loop over the required rules
RECURSIVE ReqLines(_, _, _, _)
ReqLines(acc, lines, text, what) ==
    IF lines = <<>> \/ acc.status # "running" THEN acc
    ELSE IF Len(Head(lines)) = 0 THEN ReqLines(acc, Tail(lines), text, what)
    ELSE ReqLines(ReqPulledOff(acc, pull_off_points(Head(lines)), text, what),
                  Tail(lines), text, what)

\* lines 1554-1566: a prohibited rule that was found
ProhibBad(acc, points, line) ==
    IF points.isNone
    THEN [acc EXCEPT !.out_analysis = Append(@, Message(NonePoints, "Prohibited", "output", line))]
    ELSE [acc EXCEPT
            !.out_analysis = Append(@, Message(points,
                                 IF points.num < 0 THEN "points for prohibited"
                                                   ELSE "extra credit points for",
                                 "output", line)),
            !.points_docked = AddPoints(@, points)]

\* lines 1546-1566: one prohibited rule whose points have been pulled off
ProhibPulled(acc, points, line, text) ==
    IF IsQuoted(line)
    THEN IF Len(line) < 3 THEN acc
         ELSE IF IsSubstr(QuotedSlice(line), text) THEN ProhibBad(acc, points, line)
         ELSE acc
    ELSE IF ~RegexCompiles(line) THEN [acc EXCEPT !.status = "raised"]
    ELSE IF RegexSearch(line, text) THEN ProhibBad(acc, points, line)
    ELSE acc

ProhibPulledOff(acc, pulled, text) == ProhibPulled(acc, pulled.points, pulled.line, text)

\* lines 1542-1566: the loop over the prohibited rules
RECURSIVE ProhibLines(_, _, _)
ProhibLines(acc, lines, text) ==
    IF lines = <<>> \/ acc.status # "running" THEN acc
    ELSE IF Len(Head(lines)) = 0 THEN ProhibLines(acc, Tail(lines), text)
    ELSE ProhibLines(ProhibPulledOff(acc, pull_off_points(Head(lines)), text),
                     Tail(lines), text)

\* the return statement of line 1568
RulesReturn(acc) == IF acc.status = "running" THEN [acc EXCEPT !.status = "returned"] ELSE acc

RulesOn(config, text, code_or_output) ==
    RulesReturn(ProhibLines(ReqLines(StartOfRules, StripAll(Split(config.req, "\n")),
                                     text, code_or_output),
                            StripAll(Split(config.prohib, "\n")), text))

\* req_and_prohib(config, text, code_or_output): config.req is config['req_' + code_or_output]
\* and config.prohib is config['prohib_' + code_or_output]
req_and_prohib(config, text, code_or_output) == RulesOn(config, SubCRLF(text), code_or_output)

(***************************************************************************)
(* Specification SpecRule: rule texts run against a code or output text    *)
(***************************************************************************)

\* the number of rule lines a configuration holds (required and prohibited together)
MaxRuleLines == 2

Str_bad == <<"b", "a", "d">>

\* "{myPoints}" prefixes: none, a penalty, a bonus, and one float() rejects
PointPrefixes ==
    { <<>>, <<"{", "-", "5", "}">>, <<"{", "2", ".", "5", "}", " ">>,
      <<"{", "1", ".", "2", ".", "3", "}">> }

\* patterns: a regular expression, the same text quoted either way, a one-character
\* literal, a wildcard, and a regular expression that does not compile
RulePatterns ==
    { Str_bad, <<"\"">> \o Str_bad \o <<"\"">>, <<"'">> \o Str_bad \o <<"'">>,
      <<"\"", "b", "\"">>, <<"b", ".", "d">>, <<"(", "b", "a">> }

\* the lines of a req_<x> / prohib_<x> configuration text, as the instructor types them
RuleLines ==
    {pre \o pat : pre \in PointPrefixes, pat \in RulePatterns}
        \cup { <<"\"", "\"">>, <<" ", "(", "b", ")", "a", "d", " ">> }

\* the texts the rules are run against: student code (pre_analyze) or program
\* output (post_analyze)
RuleTexts ==
    { [code_or_output |-> "output", text |-> Str_bad],
      [code_or_output |-> "output", text |-> <<"b", "a">>],
      [code_or_output |-> "code",   text |-> <<"x">> \o Str_bad \o <<"x">>],
      [code_or_output |-> "code",   text |-> <<"b", "\r", "\n", "d">>],
      [code_or_output |-> "output", text |-> <<>>] }

InitRule ==
    /\ \E r \in SeqsUpTo(RuleLines, MaxRuleLines), q \in SeqsUpTo(RuleLines, MaxRuleLines),
          t \in RuleTexts :
          /\ Len(r) + Len(q) <= MaxRuleLines
          /\ rule_config = [req |-> Join(r, <<"\n">>), prohib |-> Join(q, <<"\n">>),
                            code_or_output |-> t.code_or_output]
          /\ rule_text = t.text
    /\ rule_result = [status |-> "none", points_docked |-> NonePoints, out_analysis |-> <<>>]
    /\ rule_pc = "call"
    /\ global_general_config = HardcodedGeneralConfig
    /\ general_config = HardcodedGeneralConfig
    /\ filename_separator = "None"
    /\ file_format_items = <<>>
    /\ student_name_in_file_format = FALSE
    /\ late_index_in_file_format = -1
    /\ local_general_file = Absent
    /\ warnings = <<>>
    /\ file_format_arg = <<>>
    /\ fmt_pc = "call"
    /\ ResolverUnused
    /\ ConfigUnused
    /\ RunUnused
    /\ AuxUnused

\* pre_analyze line 1143 / R_post_analyze line 1290: the rules are run against a text
CallReqAndProhib ==
    /\ rule_pc = "call"
    /\ rule_result' = req_and_prohib(rule_config, rule_text, rule_config.code_or_output)
    /\ rule_pc' = "done"
    /\ UNCHANGED <<rule_config, rule_text, fmtVars, resVars, cfgVars, runVars, auxVars>>

NextRule == CallReqAndProhib

SpecRule == InitRule /\ [][NextRule]_vars

(***************************************************************************)
(* Claims about req_and_prohib (under SpecRule)                            *)
(***************************************************************************)

IsRule(line) == Len(line) > 0

\* the rules a configuration text holds, one per non-blank line
RulesOf(t) == SelectSeq(StripAll(Split(t, "\n")), IsRule)

\* the text between the quotes of a quoted literal
LiteralOf(pattern) == SubSeq(pattern, 2, Len(pattern) - 1)

\* a quoted literal of three or more characters
IsLongLiteral(pattern) == IsQuoted(pattern) /\ Len(LiteralOf(pattern)) >= 3

\* a pattern the rule engine can evaluate: a literal of three or more characters,
\* or an unquoted regular expression that compiles
WellFormedPattern(pattern) ==
    IsLongLiteral(pattern) \/ (~IsQuoted(pattern) /\ RegexCompiles(pattern))

\* the pattern is present in the text
PatternPresent(pattern, text) ==
    IF IsQuoted(pattern) THEN IsSubstr(LiteralOf(pattern), text)
                         ELSE RegexSearch(pattern, text)

\* the evaluated configuration holds one rule, a prohibited one
OnlyProhibitedRule ==
    /\ rule_pc = "done"
    /\ Len(RulesOf(rule_config.req)) = 0
    /\ Len(RulesOf(rule_config.prohib)) = 1

TheProhibitedRule == pull_off_points(RulesOf(rule_config.prohib)[1])

\* the evaluated configuration holds one rule, a required one
OnlyRequiredRule ==
    /\ rule_pc = "done"
    /\ Len(RulesOf(rule_config.req)) = 1
    /\ Len(RulesOf(rule_config.prohib)) = 0

TheRequiredRule == pull_off_points(RulesOf(rule_config.req)[1])

SamePoints(a, b) == ~a.isNone /\ ~b.isNone /\ a.num * b.den = b.num * a.den

PenaltyWordings == {"points for prohibited"}

BonusWordings == {"extra credit points for"}

\* C8: a prohibited rule that carries a point value p contributes exactly p and a
\* message (worded as a penalty when p < 0, as extra credit when p > 0) when its
\* pattern is present in the text, and contributes 0 and no message when it is absent.
C8_ProhibitedRuleContributesPoints ==
    (/\ OnlyProhibitedRule
     /\ ~TheProhibitedRule.points.isNone
     /\ WellFormedPattern(TheProhibitedRule.line))
    => /\ rule_result.status = "returned"
       /\ IF PatternPresent(TheProhibitedRule.line, rule_text)
          THEN /\ SamePoints(rule_result.points_docked, TheProhibitedRule.points)
               /\ Len(rule_result.out_analysis) = 1
               /\ TheProhibitedRule.points.num < 0
                    => rule_result.out_analysis[1].wording \in PenaltyWordings
               /\ TheProhibitedRule.points.num > 0
                    => rule_result.out_analysis[1].wording \in BonusWordings
          ELSE /\ SamePoints(rule_result.points_docked, ZeroPoints)
               /\ rule_result.out_analysis = <<>>

\* C9: a required rule whose pattern is present emits nothing and leaves the point
\* delta alone; one whose pattern is absent emits a message about the missing text
\* and adds its point value, if it has one, to the point delta (no point value: the
\* message only).
C9_RequiredRuleSemantics ==
    (OnlyRequiredRule /\ WellFormedPattern(TheRequiredRule.line))
    => /\ rule_result.status = "returned"
       /\ IF PatternPresent(TheRequiredRule.line, rule_text)
          THEN /\ SamePoints(rule_result.points_docked, ZeroPoints)
               /\ rule_result.out_analysis = <<>>
          ELSE /\ Len(rule_result.out_analysis) = 1
               /\ rule_result.out_analysis[1].line = TheRequiredRule.line
               /\ IF TheRequiredRule.points.isNone
                  THEN SamePoints(rule_result.points_docked, ZeroPoints)
                  ELSE SamePoints(rule_result.points_docked, TheRequiredRule.points)

\* the one rule of the evaluated configuration was found in the text, as the
\* result shows it: a required rule that is found emits nothing, a prohibited rule
\* that is found emits its message
RequiredRuleMatched == rule_result.status = "returned" /\ rule_result.out_analysis = <<>>

ProhibitedRuleMatched == rule_result.status = "returned" /\ rule_result.out_analysis # <<>>

\* C10: a rule whose pattern is a quoted literal of three or more characters matches
\* a text iff the text contains the whole literal between the quotes, for required
\* and for prohibited evaluation alike.
C10_QuotedLiteralIsExactSubstring ==
    /\ (OnlyRequiredRule /\ IsLongLiteral(TheRequiredRule.line))
          => (RequiredRuleMatched <=> IsSubstr(LiteralOf(TheRequiredRule.line), rule_text))
    /\ (OnlyProhibitedRule /\ IsLongLiteral(TheProhibitedRule.line))
          => (ProhibitedRuleMatched <=> IsSubstr(LiteralOf(TheProhibitedRule.line), rule_text))

(***************************************************************************)
(* read_roster                                                             *)
(*                                                                         *)
(* The roster file the method finds and reads is an input: either no file  *)
(* is chosen (no candidate, or the selection dialog is cancelled), or a    *)
(* table is read, given as a function from column name to column.          *)
(***************************************************************************)

NoRoster == [found |-> FALSE, table |-> <<>>]

\* roster[colname].tolist() when the column is named and present, else None
RosterColumn(table, colname) ==
    IF colname # <<>> /\ colname \in DOMAIN table THEN table[colname] ELSE NoneList

\* the values of general_config['filename_name_fmt'] the method knows
STR_LastCommaFirst == <<"L", "a", "s", "t", ",", " ", "F", "i", "r", "s", "t">>
STR_LastDotFirst == <<"L", "a", "s", "t", ".", "F", "i", "r", "s", "t">>
STR_FirstDotLast == <<"F", "i", "r", "s", "t", ".", "L", "a", "s", "t">>
STR_FirstLast == <<"F", "i", "r", "s", "t", "L", "a", "s", "t">>
STR_LastFirst == <<"L", "a", "s", "t", "F", "i", "r", "s", "t">>

\* lines 380-403: one full name, by general_config['filename_name_fmt']
FullNameOf(a, b, name_fmt) ==
    IF name_fmt = STR_LastCommaFirst THEN b \o <<",", " ">> \o a
    ELSE IF name_fmt = STR_LastDotFirst THEN b \o <<".">> \o a
    ELSE IF name_fmt = STR_FirstDotLast THEN a \o <<".">> \o b
    ELSE IF name_fmt = STR_FirstLast THEN a \o b
    ELSE IF name_fmt = STR_LastFirst THEN b \o a
    ELSE a \o <<" ">> \o b

Min(a, b) == IF a < b THEN a ELSE b

\* lines 376-405: self.roster_fullname
RosterFullnames(first, last, name_fmt) ==
    IF first = NoneList \/ last = NoneList THEN NoneList
    ELSE [i \in 1..Min(Len(first), Len(last)) |->
             Lower(FullNameOf(first[i], last[i], name_fmt))]

\* re.sub("@.*", "", s)
CutAtSign(s) == IF "@" \in Chars(s) THEN SubSeq(s, 1, IndexOf("@", s)) ELSE s

\* lines 408-409: self.roster_email
RosterEmails(mail) == [i \in 1..Len(mail) |-> CutAtSign(Lower(mail[i]))]

\* read_roster(), given what it finds to read: the roster attributes it leaves
\* (the last statement raises TypeError when the email column was not found)
read_roster(cfg, found) ==
    IF ~found.found
    THEN [raised |-> FALSE, roster_id |-> "None", roster_fullname |-> NoneList,
          roster_email |-> NoneList]
    ELSE [raised |-> RosterColumn(found.table, cfg.roster_email_col) = NoneList,
          roster_id |-> cfg.course_id,
          roster_fullname |->
              RosterFullnames(RosterColumn(found.table, cfg.roster_firstname_col),
                              RosterColumn(found.table, cfg.roster_lastname_col),
                              cfg.filename_name_fmt),
          roster_email |->
              IF RosterColumn(found.table, cfg.roster_email_col) = NoneList THEN NoneList
              ELSE RosterEmails(RosterColumn(found.table, cfg.roster_email_col))]

(***************************************************************************)
(* update_general_config (as setup_for_new_dir calls it)                   *)
(***************************************************************************)

\* lines 297-301: the configuration after the local AutoGrader.config was read,
\* starting from a copy of the global one
LoadedGeneral ==
    IF local_general_file = Absent
    THEN [status |-> "returned", written |-> FALSE, file |-> Absent,
          config |-> global_general_config, warnings |-> <<>>]
    ELSE update_config_from_file(local_general_file, file_mtime.general,
                                 global_general_config, general_config_setup, FALSE, now)

\* the decoder fields as they stand
CurrentDecoder ==
    [filename_separator |-> filename_separator,
     student_name_in_file_format |-> student_name_in_file_format,
     late_index_in_file_format |-> late_index_in_file_format,
     file_format_items |-> file_format_items]

\* lines 302-305: set_file_format_info is called when the format differs from the
\* one the directory was entered with (the global one) or was never decoded
FormatInfoAfterLoad(cfg, old_file_format) ==
    IF cfg.file_format # old_file_format \/ filename_separator = "None"
    THEN FileFormatInfo(cfg, global_general_config.file_format, cfg.file_format)
    ELSE [rejected |-> FALSE, config |-> cfg, decoder |-> CurrentDecoder]

\* lines 306-308: read_roster is called when the course differs or no roster is held
RosterAfterLoad(cfg, old_course_id, found) ==
    IF cfg.course_id # old_course_id \/ roster_id = "None"
    THEN read_roster(cfg, found)
    ELSE [raised |-> FALSE, roster_id |-> roster_id, roster_fullname |-> roster_fullname,
          roster_email |-> roster_email]

WarningsOf(info) ==
    IF info.rejected THEN <<"Bad 'File format' in general setup">> ELSE <<>>

\* self.general_config[...] raises TypeError: the configuration is None
GeneralConfigRaised(ld) ==
    /\ general_config' = NoneConfig
    /\ warnings' = warnings \o ld.warnings
    /\ cfg_pc' = "raised"
    /\ UNCHANGED <<local_general_file, file_mtime, filename_separator, file_format_items,
                   student_name_in_file_format, late_index_in_file_format, roster_id,
                   roster_fullname, roster_email>>

\* the local file after the call: update_config_from_file writes it when it is
\* empty, set_file_format_info when the format is rejected
GeneralFileAfter(ld, info) ==
    IF info.rejected THEN GeneralConfigText(info.config)
    ELSE IF ld.written THEN ld.file
    ELSE local_general_file

GeneralConfigStored(ld, info, ros) ==
    /\ general_config' = info.config
    /\ SetDecoder(info.decoder)
    /\ warnings' = warnings \o ld.warnings \o WarningsOf(info)
    /\ local_general_file' = GeneralFileAfter(ld, info)
    /\ file_mtime' = IF ld.written \/ info.rejected
                     THEN [file_mtime EXCEPT !.general = now] ELSE file_mtime
    /\ roster_id' = ros.roster_id
    /\ roster_fullname' = ros.roster_fullname
    /\ roster_email' = ros.roster_email
    /\ cfg_pc' = IF ros.raised THEN "raised" ELSE "general"

GeneralConfigLoaded(ld, info, found) ==
    GeneralConfigStored(ld, info,
                        RosterAfterLoad(info.config, global_general_config.course_id, found))

\* update_general_config(), the whole method, given what read_roster finds
update_general_config(ld, found) ==
    IF global_general_config = NoneConfig \/ ld.config = NoneConfig
    THEN GeneralConfigRaised(ld)
    ELSE GeneralConfigLoaded(ld, FormatInfoAfterLoad(ld.config,
                                                     global_general_config.file_format),
                             found)

(***************************************************************************)
(* get_codefiles                                                           *)
(***************************************************************************)

Str_R == <<"R">>
Str_Rmd == <<"R", "m", "d">>
Str_RRmd == <<"R", "R", "m", "d">>
Str_sas == <<"s", "a", "s">>
Str_py == <<"p", "y">>

\* ".+[.](e1|e2|...)$" with re.IGNORECASE, searched in s
HasExtension(s, exts) ==
    \E e \in exts :
        /\ Len(s) >= Len(e) + 2
        /\ EndsWithNoCase(s, <<".">> \o e)
        /\ s[Len(s) - Len(e) - 1] # "\n"

\* ok_re of line 735
CodefileExts == {Str_R, Str_Rmd, Str_RRmd, Str_sas, Str_py}

\* isOKext_re of lines 752-754, for a star_ext that is a plain extension
StarExts(star_ext) ==
    IF star_ext = Str_RRmd THEN {Str_R, Str_Rmd, Str_sas, Str_py} ELSE {star_ext}

\* [f.strip() for f in self.general_config['codefiles'].split(",")]
CodefileList(cfg) == StripAll(Split(cfg.codefiles, ","))

\* star_cnt = sum(["*" in f for f in file_list])
StarCount(file_list) == Cardinality({i \in 1..Len(file_list) : "*" \in Chars(file_list[i])})

\* the condition of the `if` at line 739
CodefilesRejected(file_list) ==
    \/ \E i \in 1..Len(file_list) : ~HasExtension(file_list[i], CodefileExts)
    \/ StarCount(file_list) > 1
    \/ (StarCount(file_list) = 1 /\ Len(file_list) > 1)

\* re.sub("[.]r", ".R", x)
RECURSIVE SubDotR(_)
SubDotR(x) ==
    IF Len(x) < 2 THEN x
    ELSE IF x[1] = "." /\ x[2] = "r" THEN <<".", "R">> \o SubDotR(SubSeq(x, 3, Len(x)))
    ELSE <<Head(x)>> \o SubDotR(Tail(x))

\* lines 755-756: the listed files with the extension looked for
OKFiles(listing, exts) == SelectSeq(listing, LAMBDA f : HasExtension(f, exts))

\* lines 757-758: the 'filename' each of them decodes to, and whether a decode raised
AllMatches(ok_files) ==
    [i \in 1..Len(ok_files) |-> SubDotR(parse_one_filename(ok_files[i]).filename)]

SomeParseRaised(ok_files) == \E i \in 1..Len(ok_files) : parse_one_filename(ok_files[i]).raised

\* the orders list(set(...)) may give the distinct non-empty names
Orderings(names) ==
    {p \in [1..Cardinality(names) -> names] : \A x \in names : \E i \in DOMAIN p : p[i] = x}

ExpandedNames(all_matches) == {x \in Chars(all_matches) : Len(x) > 0}

\* lines 760-763: the warning about files that do not conform
BadFormatsShown(all_matches) ==
    IF \E i \in 1..Len(all_matches) : Len(all_matches[i]) = 0
    THEN <<"Bad file formats">> ELSE <<>>

\* lines 768-774: the expansion is stored in general_config and in the local file
ExpansionStored(file_list, shown) ==
    /\ codefiles' = file_list
    /\ general_config' = [general_config EXCEPT !.codefiles = Join(file_list, <<",", " ">>),
                                                !.config_mod_time = now]
    /\ local_general_file' =
           GeneralConfigText([general_config EXCEPT
                                 !.codefiles = Join(file_list, <<",", " ">>),
                                 !.config_mod_time = now])
    /\ file_mtime' = [file_mtime EXCEPT !.general = now]
    /\ warnings' = warnings \o shown
    /\ cfg_pc' = "codefiles"

\* self.codefiles is left as given: None, or the list of the configuration
CodefilesStored(file_list, shown) ==
    /\ codefiles' = file_list
    /\ warnings' = warnings \o shown
    /\ cfg_pc' = "codefiles"
    /\ UNCHANGED <<general_config, local_general_file, file_mtime>>

\* lines 749-777: a star designation is expanded
ExpandStar(ok_files, all_matches) ==
    IF SomeParseRaised(ok_files)
    THEN /\ cfg_pc' = "raised"
         /\ UNCHANGED <<codefiles, general_config, local_general_file, file_mtime, warnings>>
    ELSE IF ExpandedNames(all_matches) = {}
    THEN CodefilesStored(NoneList, BadFormatsShown(all_matches))
    ELSE \E file_list \in Orderings(ExpandedNames(all_matches)) :
             ExpansionStored(file_list, BadFormatsShown(all_matches))

ExpandStarIn(ok_files) == ExpandStar(ok_files, AllMatches(ok_files))

CodefilesFrom(file_list) ==
    IF CodefilesRejected(file_list)
    THEN CodefilesStored(NoneList, <<"Bad 'codefiles'">>)
    ELSE IF StarCount(file_list) = 0
    THEN CodefilesStored(file_list, <<>>)
    ELSE ExpandStarIn(OKFiles(dir_listing,
                              StarExts(SubSeq(file_list[1], 3, Len(file_list[1])))))

\* get_codefiles(), the whole method
get_codefiles == CodefilesFrom(CodefileList(general_config))

(***************************************************************************)
(* set_specific_configs                                                    *)
(***************************************************************************)

Str_config == <<".", "c", "o", "n", "f", "i", "g">>

\* the text of a file of the directory (Absent when there is no such file)
FileText(files, name) == IF name \in DOMAIN files THEN files[name] ELSE Absent

FileTime(times, name) == IF name \in DOMAIN times THEN times[name] ELSE 0

\* lines 424-435: what the loop has built so far
StartOfSpecific ==
    [status |-> "running", entries |-> <<>>, files |-> local_specific_files,
     times |-> file_mtime.specific, warnings |-> <<>>]

\* lines 430-435: one codefile, given what update_config_from_file returned
SpecificLoaded(acc, name, ld) ==
    IF ld.status = "raised" THEN [acc EXCEPT !.status = "raised"]
    ELSE [acc EXCEPT
            !.entries = (name :> ld.config) @@ @,
            !.files = IF ld.written THEN (name :> ld.file) @@ @ ELSE @,
            !.times = IF ld.written THEN (name :> now) @@ @ ELSE @,
            !.warnings = @ \o ld.warnings]

\* lines 427-435: one codefile
LoadSpecific(acc, name) ==
    SpecificLoaded(acc, name,
                   update_config_from_file(FileText(acc.files, name),
                                           FileTime(acc.times, name),
                                           global_specific_config, specific_config_setup,
                                           TRUE, now))

\* lines 426-435: the loop over self.codefiles
RECURSIVE LoadSpecifics(_, _)
LoadSpecifics(acc, files) ==
    IF files = <<>> \/ acc.status # "running" THEN acc
    ELSE LoadSpecifics(LoadSpecific(acc, Head(files) \o Str_config), Tail(files))

SpecificStored(acc) ==
    /\ specific_configs' = [isNone |-> FALSE, entries |-> acc.entries]
    /\ local_specific_files' = acc.files
    /\ file_mtime' = [file_mtime EXCEPT !.specific = acc.times]
    /\ warnings' = warnings \o acc.warnings
    /\ cfg_pc' = IF acc.status = "raised" THEN "raised" ELSE "ready"

\* set_specific_configs(), the whole method
set_specific_configs == SpecificStored(LoadSpecifics(StartOfSpecific, codefiles))

\* self.max_codefiles
max_codefiles == 10

(***************************************************************************)
(* Specification SpecConfig: the configuration tiers being loaded as        *)
(* directories are entered                                                 *)
(*                                                                         *)
(* A configuration file is given by the records it was written from: an id *)
(* and the text of its value, or a piece of text with no "id:" in front.   *)
(***************************************************************************)

\* how many times the user moves to another directory
MaxDirChanges == 1

\* the time the program starts at; the files it finds are older
StartTime == 3

Rec(id, value) == [id |-> id, value |-> value]

Raw(text) == [id |-> "", value |-> text]

NoFile == [exists |-> FALSE, mtime |-> 0, records |-> <<>>]

FileOf(mtime, records) == [exists |-> TRUE, mtime |-> mtime, records |-> records]

Str_bogus == <<"b", "o", "g", "u", "s">>

\* the text a record is written as: "id: value" and a blank line
RecordText(r) ==
    IF r.id = "" THEN r.value \o <<"\n", "\n">>
    ELSE ConfigRecordText(IF r.id \in DOMAIN IdText THEN IdText[r.id] ELSE Str_bogus, r.value)

RECURSIVE RecordsText(_)
RecordsText(records) ==
    IF records = <<>> THEN <<>> ELSE RecordText(Head(records)) \o RecordsText(Tail(records))

\* the text of a configuration file (Absent when there is no file)
InputText(input) == IF input.exists THEN RecordsText(input.records) ELSE Absent

Str_c1 == <<"c", "1">>
Str_c2 == <<"c", "2">>
Str_fmt_ef == <<"%", "e", "_", "%", "f">>
Str_fmt_sf == <<"%", "s", "_", "%", "f">>
Str_good == <<"g", "o", "o", "d">>

GlobalGeneralInputs ==
    { NoFile,
      FileOf(1, <<Rec("course_id", Str_c1), Rec("file_format", Str_fmt_ef)>>) }

GlobalSpecificInputs ==
    { NoFile,
      FileOf(1, <<Rec("min_comments", <<"3">>), Rec("req_code", Str_bad)>>) }

LocalGeneralInputs ==
    { NoFile,
      FileOf(2, <<>>),
      FileOf(2, <<Rec("course_id", Str_c2)>>),
      FileOf(2, <<Rec("course_id", <<>>), Rec("codefiles", Str_hwR)>>),
      FileOf(2, <<Rec("file_format", Str_fmt_sf)>>),
      FileOf(2, <<Rec("file_format", Str_bad)>>),
      FileOf(2, <<Raw(Str_bad), Rec("course_id", Str_c2)>>),
      FileOf(2, <<Rec("bogus", <<"1">>), Rec("course_id", Str_c2)>>) }

LocalSpecificInputs ==
    { NoFile,
      FileOf(2, <<Rec("min_comments", <<"7">>)>>),
      FileOf(2, <<Rec("min_comments", <<"x">>), Rec("req_code", Str_good)>>),
      FileOf(2, <<Rec("req_code", <<>>)>>),
      FileOf(2, <<Rec("req_code", <<"a", "\n", "\n", "b">>)>>) }

Listings ==
    { <<Join(<<Str_al, Str_hwR>>, <<"_">>)>>,
      <<Join(<<Str_Al, Str_t1, Str_hwR>>, <<"_">>), Join(<<Str_bo, Str_t1, Str_hw1R>>, <<"_">>)>>,
      <<Join(<<Str_Al, Str_t1, Str_hwR>>, <<"_">>), Join(<<Str_bo, Str_t1, Str_hwpy>>, <<"_">>)>> }

\* the directories the user may enter: AutoGrader.config, hw.R.config and the
\* submissions found there
Directories ==
    { [general |-> g, specific |-> s, listing |-> l] :
        g \in LocalGeneralInputs, s \in LocalSpecificInputs, l \in Listings }

Str_FirstName == <<"F", "i", "r", "s", "t", "N", "a", "m", "e">>
Str_LastName == <<"L", "a", "s", "t", "N", "a", "m", "e">>
Str_Email == <<"E", "m", "a", "i", "l">>

\* what read_roster may find: no roster, a roster with the three columns of the
\* default configuration, a roster without an email column
RosterReads ==
    { NoRoster,
      [found |-> TRUE,
       table |-> (Str_FirstName :> <<Str_Al>>) @@ (Str_LastName :> <<Str_bo>>)
                 @@ (Str_Email :> <<Str_e1 \o <<"@", "x">> >>)],
      [found |-> TRUE,
       table |-> (Str_FirstName :> <<Str_Al>>) @@ (Str_LastName :> <<Str_bo>>)] }

\* the '<codefile>.config' files of a directory, and their modification times
SpecificFilesOf(d) ==
    IF d.specific.exists THEN (Str_hwR \o Str_config) :> InputText(d.specific) ELSE <<>>

SpecificTimesOf(d) ==
    IF d.specific.exists THEN (Str_hwR \o Str_config) :> d.specific.mtime ELSE <<>>

\* one_time_setup lines 198-207 / 215-224: a global tier, from the hardcoded
\* defaults and the global file when there is one
GlobalTier(input, config_setup) ==
    IF ~input.exists THEN construct_config(config_setup, StartTime)
    ELSE update_config_from_file(InputText(input), input.mtime,
                                 construct_config(config_setup, StartTime),
                                 config_setup, FALSE, StartTime).config

\* the state after one_time_setup(), in the directory the program starts in
InitConfig ==
    /\ \E gg \in GlobalGeneralInputs, gs \in GlobalSpecificInputs, d \in Directories :
          /\ cfg_input = [global_general |-> gg, global_specific |-> gs, dir |-> d,
                          visited |-> 0, edits |-> 0]
          /\ global_general_config = GlobalTier(gg, general_config_setup)
          /\ global_specific_config = GlobalTier(gs, specific_config_setup)
          /\ local_general_file = InputText(d.general)
          /\ local_specific_files = SpecificFilesOf(d)
          /\ file_mtime = [general |-> d.general.mtime, specific |-> SpecificTimesOf(d)]
          /\ dir_listing = d.listing
    /\ general_config = NoneConfig
    /\ specific_configs = NoneSpecific
    /\ filename_separator = "None"
    /\ file_format_items = <<>>
    /\ student_name_in_file_format = FALSE
    /\ late_index_in_file_format = -1
    /\ warnings = <<>>
    /\ file_format_arg = <<>>
    /\ fmt_pc = "call"
    /\ roster_id = "None"
    /\ roster_fullname = NoneList
    /\ roster_email = NoneList
    /\ now = StartTime
    /\ cfg_pc = "new_dir"
    /\ codefiles = NoneList
    /\ codefile_index = 0
    /\ fullname = <<>>
    /\ filename = <<>>
    /\ version = <<>>
    /\ versioned_filename = <<>>
    /\ timestamp = <<>>
    /\ student_name = <<>>
    /\ email = <<>>
    /\ file_label = <<>>
    /\ res_pc = "unused"
    /\ RuleUnused
    /\ RunUnused
    /\ AuxUnused

\* setup_for_new_dir lines 532-533: update_general_config() on a copy of the global
\* general configuration
UpdateGeneralConfig ==
    /\ cfg_pc = "new_dir"
    /\ \E found \in RosterReads : update_general_config(LoadedGeneral, found)
    /\ now' = now + 1
    /\ UNCHANGED <<global_general_config, file_format_arg, fmt_pc, dir_listing, codefiles,
                   codefile_index, studentVars, res_pc, ruleVars, auxVars, runVars, global_specific_config,
                   specific_configs, local_specific_files, cfg_input>>

\* setup_for_new_dir line 534: get_codefiles()
GetCodefiles ==
    /\ cfg_pc = "general"
    /\ get_codefiles
    /\ now' = now + 1
    /\ UNCHANGED <<global_general_config, filename_separator, file_format_items,
                   student_name_in_file_format, late_index_in_file_format,
                   file_format_arg, fmt_pc, dir_listing, codefile_index, roster_fullname,
                   roster_email, studentVars, res_pc, ruleVars, auxVars, runVars, global_specific_config,
                   specific_configs, local_specific_files, roster_id, cfg_input>>

\* setup_for_new_dir lines 535-550: get_student_files(forceFirst=True), then the
\* checks made before the per-codefile configurations are read
ListStudentFiles ==
    /\ cfg_pc = "codefiles"
    /\ get_student_files(TRUE)
    /\ codefile_index' = 0
    /\ specific_configs' = IF codefiles = NoneList THEN NoneSpecific ELSE specific_configs
    /\ cfg_pc' = IF res_pc' = "raised" THEN "raised"
                 ELSE IF codefiles = NoneList THEN "ready"
                 ELSE IF Len(codefiles) > max_codefiles THEN "raised"
                 ELSE "students"
    /\ now' = now + 1
    /\ UNCHANGED <<fmtVars, dir_listing, codefiles, roster_fullname, roster_email, ruleVars, auxVars, runVars,
                   global_specific_config, local_specific_files, file_mtime, roster_id,
                   cfg_input>>

\* setup_for_new_dir line 552: set_specific_configs()
SetSpecificConfigs ==
    /\ cfg_pc = "students"
    /\ set_specific_configs
    /\ now' = now + 1
    /\ UNCHANGED <<general_config, global_general_config, filename_separator,
                   file_format_items, student_name_in_file_format,
                   late_index_in_file_format, local_general_file, file_format_arg, fmt_pc,
                   resVars, ruleVars, auxVars, runVars, global_specific_config, roster_id, cfg_input>>

\* choose_directory / new_dir: the user moves to another directory, where
\* setup_for_new_dir starts again (after an exception in the previous callback too)
NewDir ==
    /\ cfg_pc = "ready" \/ (cfg_pc = "raised" /\ cfg_input.visited > 0)
    /\ cfg_input.visited < MaxDirChanges
    /\ \E d \in Directories :
          /\ cfg_input' = [cfg_input EXCEPT !.dir = d, !.visited = @ + 1]
          /\ local_general_file' = InputText(d.general)
          /\ local_specific_files' = SpecificFilesOf(d)
          /\ file_mtime' = [general |-> d.general.mtime, specific |-> SpecificTimesOf(d)]
          /\ dir_listing' = d.listing
    /\ cfg_pc' = "new_dir"
    /\ now' = now + 1
    /\ UNCHANGED <<general_config, global_general_config, filename_separator,
                   file_format_items, student_name_in_file_format,
                   late_index_in_file_format, warnings, file_format_arg, fmt_pc, codefiles,
                   codefile_index, roster_fullname, roster_email, studentVars, res_pc,
                   ruleVars, auxVars, runVars, global_specific_config, specific_configs, roster_id>>

\* the codefiles entries typed into the general configuration dialog: one explicit name
DialogCodefiles == {Str_hwR, Str_hwpy}

\* the number of times the general configuration dialog is confirmed
MaxEdits == 1

\* general_config_dialog lines 1877-1879: the dialog's result becomes general_config
DialogResult(typed) ==
    [general_config EXCEPT !.codefiles = typed, !.config_mod_time = now]

\* update_for_general_config_nongui lines 1898-1907 for an entry of explicit names, then
\* lines 1886-1890: get_codefiles() keeps the names or rejects them, general_config
\* takes the joined names, get_student_files(forceFirst=True) lists the first
\* codefile, the configuration is written to AutoGrader.config and
\* update_codefiles_in_gui selects the first codefile. set_specific_configs is not
\* called anywhere on this path.
CodefilesEdited(typed, file_list) ==
    /\ codefiles' = IF CodefilesRejected(file_list) THEN NoneList ELSE file_list
    /\ warnings' = warnings \o (IF CodefilesRejected(file_list)
                                THEN <<"Bad 'codefiles'">> ELSE <<>>)
    /\ general_config' =
           IF CodefilesRejected(file_list) THEN DialogResult(typed)
           ELSE DialogResult(Join(file_list, <<",", " ">>))
    /\ IF CodefilesRejected(file_list)
       THEN SetStudents(EmptyStudents)
       ELSE SetStudents(ParseCodefileNames(
                MatchingFiles(dir_listing, filename_separator, file_list[1])))
    /\ codefile_index' = 0
    /\ specific_configs' = IF res_pc' # "raised" /\ CodefilesRejected(file_list)
                           THEN NoneSpecific ELSE specific_configs
    /\ local_general_file' = IF res_pc' = "raised" THEN local_general_file
                             ELSE GeneralConfigText(general_config')
    /\ file_mtime' = IF res_pc' = "raised" THEN file_mtime
                     ELSE [file_mtime EXCEPT !.general = now]
    /\ cfg_pc' = IF res_pc' = "raised" THEN "raised" ELSE "ready"

\* lines 1877-1890 when the codefiles entry is confirmed as it was: only the
\* modification time changes and the file is written again
CodefilesKept(typed) ==
    /\ general_config' = DialogResult(typed)
    /\ local_general_file' = GeneralConfigText(DialogResult(typed))
    /\ file_mtime' = [file_mtime EXCEPT !.general = now]
    /\ UNCHANGED <<codefiles, warnings, codefile_index, studentVars, res_pc,
                   specific_configs, cfg_pc>>

\* Setup / General configuration: general_config_dialog(), confirmed with OK
GeneralConfigDialog ==
    /\ cfg_pc = "ready"
    /\ cfg_input.edits < MaxEdits
    /\ \E typed \in DialogCodefiles :
          IF typed # general_config.codefiles
          THEN CodefilesEdited(typed, StripAll(Split(typed, ",")))
          ELSE CodefilesKept(typed)
    /\ cfg_input' = [cfg_input EXCEPT !.edits = @ + 1]
    /\ now' = now + 1
    /\ UNCHANGED <<global_general_config, filename_separator, file_format_items,
                   student_name_in_file_format, late_index_in_file_format,
                   file_format_arg, fmt_pc, dir_listing, roster_fullname, roster_email,
                   ruleVars, auxVars, runVars, global_specific_config,
                   local_specific_files, roster_id>>

NextConfig ==
    \/ UpdateGeneralConfig
    \/ GetCodefiles
    \/ ListStudentFiles
    \/ SetSpecificConfigs
    \/ GeneralConfigDialog
    \/ NewDir

SpecConfig == InitConfig /\ [][NextConfig]_vars

(***************************************************************************)
(* Claims about the configuration tiers (under SpecConfig)                 *)
(***************************************************************************)

\* the entry of config_setup for field id k
FieldOf(k, config_setup) == config_setup[IndexOf(k, SetupIds(config_setup)) + 1]

\* the value a record gives its field: the text, or the integer it denotes
ValueOfRecord(r, config_setup) ==
    IF FieldOf(r.id, config_setup).type = "int" THEN IntOf(r.value) ELSE r.value

\* a record a file may hold for config_setup: a field of the setup, one line with no
\* blank around it, an integer where the field is one
RecordWellFormed(r, config_setup) ==
    /\ InList(r.id, SetupIds(config_setup))
    /\ Strip(r.value) = r.value
    /\ ~IsSubstr(<<"\n", "\n">>, r.value)
    /\ FieldOf(r.id, config_setup).type = "int" => IntValid(r.value)

\* a file that is missing, or whose records are well formed and name distinct fields
InputWellFormed(input, config_setup) ==
    /\ \A i \in 1..Len(input.records) : RecordWellFormed(input.records[i], config_setup)
    /\ \A i, j \in 1..Len(input.records) :
          i # j => input.records[i].id # input.records[j].id

\* field id k is present in the file
PresentIn(input, k) == \E i \in 1..Len(input.records) : input.records[i].id = k

\* the value the file gives field k
ValueIn(input, k, config_setup) ==
    ValueOfRecord(input.records[CHOOSE i \in 1..Len(input.records) :
                                    input.records[i].id = k], config_setup)

\* tier precedence: the local file's value, else the global file's, else the default
TierValue(k, loc, glob, config_setup) ==
    IF PresentIn(loc, k) THEN ValueIn(loc, k, config_setup)
    ELSE IF PresentIn(glob, k) THEN ValueIn(glob, k, config_setup)
    ELSE FieldOf(k, config_setup).default

\* the format of the local file was rejected, so file_format fell back to the global one
FormatFellBack == InList("Bad 'File format' in general setup", warnings)

\* update_general_config has just returned
GeneralTiersLoaded ==
    /\ cfg_pc = "general"
    /\ InputWellFormed(cfg_input.global_general, general_config_setup)
    /\ InputWellFormed(cfg_input.dir.general, general_config_setup)

\* set_specific_configs has just returned, having read hw.R.config
SpecificTiersLoaded ==
    /\ cfg_pc = "ready"
    /\ ~specific_configs.isNone
    /\ (Str_hwR \o Str_config) \in DOMAIN specific_configs.entries
    /\ InputWellFormed(cfg_input.global_specific, specific_config_setup)
    /\ InputWellFormed(cfg_input.dir.specific, specific_config_setup)

\* C5: after the hardcoded defaults, the global file and the local file were loaded,
\* every field present in the local file holds the local file's value, and every
\* other field holds the global file's value, or the default when the global file
\* does not give it either (file_format aside when the local format was rejected).
C5_TierPrecedence ==
    /\ GeneralTiersLoaded =>
          \A i \in 1..Len(general_config_setup) :
              \/ general_config_setup[i].id = "file_format" /\ FormatFellBack
              \/ general_config[general_config_setup[i].id]
                    = TierValue(general_config_setup[i].id, cfg_input.dir.general,
                                cfg_input.global_general, general_config_setup)
    /\ SpecificTiersLoaded =>
          \A i \in 1..Len(specific_config_setup) :
              specific_configs.entries[Str_hwR \o Str_config][specific_config_setup[i].id]
                  = TierValue(specific_config_setup[i].id, cfg_input.dir.specific,
                              cfg_input.global_specific, specific_config_setup)

(***************************************************************************)
(* Sandboxes and the files below them                                      *)
(***************************************************************************)

Str_out == <<"o", "u", "t">>
Str_dot_out == <<".", "o", "u", "t">>
Str_ltr == <<"l", "t", "r">>
Str_pre == <<"p", "r", "e">>
Str_msg == <<"m", "s", "g">>
Str_pst == <<"p", "s", "t">>
Str_log == <<"l", "o", "g">>
Str_err == <<"e", "r", "r">>
Str_knit == <<".", "k", "n", "i", "t", ".", "R">>

\* the grave accent character, which cannot be written inside a string here
Backtick == "grave"

\* the character class of line 1860
SandboxPunctuation ==
    {"-", "~", Backtick, "!", "@", "#", "$", "%", "^", "&", "*", "(", ")", "_", "+", "{", "}",
     "[", "]", ":", ";", "<", ">", "?", ",", ".", "/"}

\* get_dir_name for a student with this email and this name: the email, or else the
\* student name without punctuation
DirName(mail, name) ==
    IF mail # <<>> THEN mail
    ELSE SelectSeq(name, LAMBDA c : c \notin SandboxPunctuation)

\* get_dir_name(index)
get_dir_name(index) == DirName(email[index + 1], student_name[index + 1])

\* os.access(os.path.join(dir, name), os.R_OK) on the disk d
IsReadable(d, dir, name) == <<dir, name>> \in DOMAIN d.files

\* write_text(text, os.path.join(dir, name)) at time t: nothing is written when dir is
\* not there
write_text(d, dir, name, t) ==
    IF dir \notin d.dirs THEN d
    ELSE [d EXCEPT !.files = (<<dir, name>> :> t) @@ @]

\* get_text(self.fullname[index]): Absent stands for None
get_text(fname) == submissions[fname].text

(***************************************************************************)
(* run_one: from the submission to its artifacts                           *)
(***************************************************************************)

\* what a call has done so far: the disk, whether it returned or raised, the warnings shown
\* and self.active_letter_file
Outcome(d, status, shown, letter) ==
    [disk |-> d, status |-> status, shown |-> shown, letter |-> letter]

\* self.specific_configs[self.codefile + ".config"]
CodefileConfig == specific_configs.entries[codefile \o Str_config]

\* the index after the white space that starts at k
RECURSIVE SkipSpace(_, _)
SkipSpace(s, k) ==
    IF k <= Len(s) /\ s[k] \in Whitespace THEN SkipSpace(s, k + 1) ELSE k

FenceAt(s, k) ==
    k + 2 <= Len(s) /\ s[k] = Backtick /\ s[k + 1] = Backtick /\ s[k + 2] = Backtick

BraceAt(s, k) == k <= Len(s) /\ s[k] = "{"

LetterRAt(s, k) == k <= Len(s) /\ s[k] \in {"r", "R"}

\* firstR_re (line 1745) matches code from position p on
FirstRAt(code, p) ==
    /\ code[p] = "\n"
    /\ FenceAt(code, SkipSpace(code, p + 1))
    /\ BraceAt(code, SkipSpace(code, SkipSpace(code, p + 1) + 3))
    /\ LetterRAt(code, SkipSpace(code, SkipSpace(code, SkipSpace(code, p + 1) + 3) + 1))

\* lines 1743-1749: setup_RMD_runstring returns None, which submit_code cannot unpack
RmdPrependFails(code, prepend) ==
    /\ prepend # <<>>
    /\ \/ \A p \in 1..Len(code) : ~FirstRAt(code, p)
       \/ FirstRAt(code, 1)

\* subprocess.run of the runstring in the sandbox: R CMD BATCH and SAS write the
\* transcript <sand_name>out when they can be launched; for python the shell opens
\* <sand_name>out and <sand_name>err before it looks for the interpreter
Launched(d, ext, sandbox, sand_name, t) ==
    IF ext = <<".", "P", "Y">>
    THEN write_text(write_text(d, sandbox, sand_name \o Str_out, t),
                    sandbox, sand_name \o Str_err, t)
    ELSE IF ~backend THEN d
    ELSE IF ext = <<".", "S", "A", "S">>
    THEN write_text(write_text(d, sandbox, sand_name \o Str_out, t),
                    sandbox, sand_name \o Str_log, t)
    ELSE write_text(d, sandbox, sand_name \o Str_out, t)

\* setup_R_runstring, setup_SAS_runstring and setup_python_runstring write the code to
\* <sandbox>/<sand_name>; setup_RMD_runstring writes the knit script as well
RunstringFiles(d, ext, sandbox, sand_name, t) ==
    IF ext = <<".", "R", "M", "D">>
    THEN write_text(write_text(d, sandbox, sand_name, t),
                    sandbox, sand_name \o Str_knit, t)
    ELSE write_text(d, sandbox, sand_name, t)

\* output_name of the four setup_*_runstring methods, below the sandbox
OutputName(ext, sand_name) ==
    IF ext = <<".", "R", "M", "D">> THEN sand_name \o Str_dot_out ELSE sand_name \o Str_out

CodedExtensions ==
    {<<".", "R">>, <<".", "R", "M", "D">>, <<".", "S", "A", "S">>, <<".", "P", "Y">>}

\* submit_code(code, sandbox, index) at time t, for a configuration without auxiliary
\* files: the disk it leaves, and whether it raised
submit_code(d, code, sandbox, index, t) ==
    IF Upper(get_extension(codefile)) \notin CodedExtensions
    THEN [disk |-> d, raised |-> FALSE]
    ELSE IF /\ Upper(get_extension(codefile)) = <<".", "R", "M", "D">>
            /\ RmdPrependFails(code, Strip(CodefileConfig.code_prepend))
    THEN [disk |-> d, raised |-> TRUE]
    ELSE [disk |-> write_text(
                       Launched(RunstringFiles(d, Upper(get_extension(codefile)), sandbox,
                                               versioned_filename[index + 1], t),
                                Upper(get_extension(codefile)), sandbox,
                                versioned_filename[index + 1], t),
                       sandbox,
                       OutputName(Upper(get_extension(codefile)),
                                  versioned_filename[index + 1]),
                       t),
          raised |-> FALSE]

\* pre_analyze(text, sandbox, index) raises when the extension of the codefile has no
\* comment syntax (re_comment is unbound) or when req_and_prohib raises
PreAnalyzeRaises(text) ==
    \/ Upper(get_extension(codefile)) \notin CodedExtensions
    \/ req_and_prohib([req |-> CodefileConfig.req_code,
                       prohib |-> CodefileConfig.prohib_code], text, "code").status = "raised"

\* post_analyze(sandbox, index) and write_letter: the messages, the output analysis and
\* the letter are written (the letter alone when the transcript is there but the
\* extension of the versioned file is not one of the classifiers)
post_analyze(d, sandbox, sand_name, t) ==
    IF /\ IsReadable(d, sandbox, sand_name \o Str_out)
       /\ Upper(get_extension(sand_name)) \notin CodedExtensions
    THEN write_text(d, sandbox, sand_name \o Str_ltr, t)
    ELSE write_text(write_text(write_text(d, sandbox, sand_name \o Str_msg, t),
                               sandbox, sand_name \o Str_pst, t),
                    sandbox, sand_name \o Str_ltr, t)

\* lines 1086-1094: post-analysis and letter, after submit_code
RunOneSubmitted(sub, sandbox, index, t) ==
    IF sub.raised
    THEN Outcome(sub.disk, "raised", <<>>, <<sandbox, versioned_filename[index + 1] \o Str_ltr>>)
    ELSE Outcome(post_analyze(sub.disk, sandbox, versioned_filename[index + 1], t),
                 "returned", <<>>, <<sandbox, versioned_filename[index + 1] \o Str_ltr>>)

\* lines 1069-1084: the blank letter, the configuration, pre-analysis and submit_code;
\* d is the disk with the blank letter on it
RunOneInSandbox(d, code, sandbox, index, t) ==
    IF CodefileConfig = NoneConfig \/ PreAnalyzeRaises(code)
    THEN Outcome(d, "raised", <<>>, <<sandbox, versioned_filename[index + 1] \o Str_ltr>>)
    ELSE RunOneSubmitted(
             submit_code(write_text(d, sandbox, versioned_filename[index + 1] \o Str_pre, t),
                         code, sandbox, index, t),
             sandbox, index, t)

\* lines 1059-1067: create the sandbox if needed; os.mkdir('') is an OSError
RunOneSandbox(d, letter, code, sandbox, index, t) ==
    IF sandbox \notin d.dirs /\ sandbox = <<>>
    THEN Outcome(d, "returned", <<"Cannot create sandbox">>, letter)
    ELSE RunOneInSandbox(
             write_text([d EXCEPT !.dirs = @ \cup {sandbox}], sandbox,
                        versioned_filename[index + 1] \o Str_ltr, t),
             code, sandbox, index, t)

\* lines 1054-1057: the code of the student; None + "\n" is a TypeError
RunOneCode(d, letter, code, index, t) ==
    IF code = Absent THEN Outcome(d, "raised", <<>>, letter)
    ELSE RunOneSandbox(d, letter, code \o <<"\n">>, get_dir_name(index), index, t)

\* run_one(who) on the disk d at time t, with self.active_letter_file being letter
run_one(d, letter, who, t) ==
    IF Count(who, file_label) # 1
    THEN Outcome(d, "returned", <<"Programmer error">>, letter)
    ELSE RunOneCode(d, letter,
                    IF who = chosen_file THEN current_code
                    ELSE get_text(fullname[IndexOf(who, file_label) + 1]),
                    IndexOf(who, file_label), t)

(***************************************************************************)
(* run_all: the batch over the resolved student files                      *)
(***************************************************************************)

\* lines 1032-1038: os.path.getmtime of <sandbox>/<versioned filename>out, or -1.0
LastRunTime(d, index) ==
    IF IsReadable(d, get_dir_name(index), versioned_filename[index + 1] \o Str_out)
    THEN d.files[<<get_dir_name(index), versioned_filename[index + 1] \o Str_out>>]
    ELSE -1

\* line 1031: os.path.getmtime(self.fullname[student_index])
InputModTime(index) == submissions[fullname[index + 1]].mtime

\* lines 1039-1040
IsStale(last_run_time, input_mod_time, config_time) ==
    last_run_time < input_mod_time \/ last_run_time < config_time

\* the record of one pass of the loop: the k-th student file, the index the label led
\* to, whether run_one was called, and the times of the k-th student file itself as the
\* pass found them
Pass(k, index, invoked, d, config_time) ==
    [fullname |-> fullname[k], index |-> index, invoked |-> invoked,
     last_run_time |-> LastRunTime(d, k - 1),
     input_mod_time |-> InputModTime(k - 1),
     config_time |-> config_time]

StartOfRunAll ==
    [disk |-> disk, status |-> "running", shown |-> <<>>, letter |-> active_letter_file,
     iterations |-> <<>>]

\* line 1041: run_one has been called
AfterRunOne(acc, out, pass) ==
    [disk |-> out.disk,
     status |-> IF out.status = "raised" THEN "raised" ELSE "running",
     shown |-> acc.shown \o out.shown,
     letter |-> out.letter,
     iterations |-> Append(acc.iterations, pass)]

\* lines 1030-1041: one pass of the loop, for who = file_label[k]
RunAllPass(acc, k, index, config_time, t) ==
    IF IsStale(LastRunTime(acc.disk, index), InputModTime(index), config_time)
    THEN AfterRunOne(acc, run_one(acc.disk, acc.letter, file_label[k], t),
                     Pass(k, index, TRUE, acc.disk, config_time))
    ELSE [acc EXCEPT !.iterations = Append(@, Pass(k, index, FALSE, acc.disk, config_time))]

\* lines 1029-1041: the loop, which the process gets through limit passes of
RECURSIVE RunAllLoop(_, _, _, _, _)
RunAllLoop(acc, k, limit, config_time, t) ==
    IF k > limit \/ acc.status # "running" THEN acc
    ELSE RunAllLoop(RunAllPass(acc, k, IndexOf(file_label[k], file_label), config_time, t),
                    k + 1, limit, config_time, t)

RunAllEnded(acc, limit) ==
    IF acc.status # "running" THEN acc
    ELSE [acc EXCEPT !.status = IF limit < Len(file_label) THEN "interrupted"
                                 ELSE "returned"]

\* line 1026
RunAllSkipped == Len(file_label) = 0 \/ file_label[1] = <<>>

\* run_all() at time t
run_all(limit, t) ==
    IF RunAllSkipped THEN [StartOfRunAll EXCEPT !.status = "returned"]
    ELSE IF CodefileConfig = NoneConfig THEN [StartOfRunAll EXCEPT !.status = "raised"]
    ELSE RunAllEnded(RunAllLoop(StartOfRunAll, 1, limit, CodefileConfig.config_mod_time, t),
                     limit)

\* the student files run_one was called for
Invoked(iterations) ==
    {iterations[k].fullname : k \in {i \in 1..Len(iterations) : iterations[i].invoked}}

\* the log of the batch: its passes, the time of each passed student file's output
\* artifact when the batch ended, and what the batch before it did if neither a
\* submission nor the configuration has changed since
RunAllStored(acc) ==
    /\ disk' = acc.disk
    /\ active_letter_file' = acc.letter
    /\ warnings' = warnings \o acc.shown
    /\ run_log' = [status |-> acc.status,
                   students |-> Len(file_label),
                   iterations |-> acc.iterations,
                   artifacts |-> [k \in 1..Len(acc.iterations) |->
                                     LastRunTime(acc.disk, k - 1)],
                   previous |-> IF run_log.changed THEN "changed" ELSE run_log.status,
                   previous_invoked |->
                       IF run_log.changed THEN {}
                       ELSE Invoked(run_log.iterations) \cup run_log.previous_invoked,
                   changed |-> FALSE]

(***************************************************************************)
(* Specification SpecRun: submissions arriving and being graded             *)
(***************************************************************************)

\* the last time at which something happens
MaxTime == 8

Str_hwRmd == <<"h", "w", ".", "R", "m", "d">>
Str_no_code == <<"(", "n", "o", " ", "c", "o", "d", "e", ")">>

\* the codefile of the assignment
RunCodefiles == {Str_hwR, Str_hwRmd}

\* student and timestamp parts of the raw names
RunIdentities ==
    {<<Str_Al, Str_t1>>, <<Str_Al, Str_e1>>, <<Str_bo, Str_t1>>, <<<<>>, Str_t1>>}

\* what a submission holds: plain code, a header with an R chunk, or nothing that can be
\* read (get_text gives None)
RunTexts ==
    {<<"x">>, <<"#", "\n", Backtick, Backtick, Backtick, "{", "r">>, Absent}

\* code_prepend as the configuration dialog may leave it
RunPrepends == {<<>>, <<"x">>}

\* the program has been started in an empty directory for one codefile
InitRun ==
    /\ global_general_config = HardcodedGeneralConfig
    /\ \E cf \in RunCodefiles :
       \E cfg \in {construct_config(specific_config_setup, StartTime), NoneConfig} :
          /\ general_config = [HardcodedGeneralConfig EXCEPT !.codefiles = cf]
          /\ codefiles = <<cf>>
          /\ codefile = cf
          /\ specific_configs = [isNone |-> FALSE, entries |-> (cf \o Str_config) :> cfg]
          /\ local_specific_files =
                 (cf \o Str_config) :> (IF cfg = NoneConfig THEN Str_bogus
                                        ELSE ConfigText(cfg, specific_config_setup))
          /\ file_mtime = [general |-> 0, specific |-> (cf \o Str_config) :> StartTime]
    /\ backend \in BOOLEAN
    /\ DecoderIs(DefaultFileFormat)
    /\ file_format_arg = DefaultFileFormat
    /\ local_general_file = Absent
    /\ warnings = <<>>
    /\ fmt_pc = "set"
    /\ dir_listing = <<>>
    /\ codefile_index = 0
    /\ roster_fullname = NoneList
    /\ roster_email = NoneList
    /\ fullname = <<>>
    /\ filename = <<>>
    /\ version = <<>>
    /\ versioned_filename = <<>>
    /\ timestamp = <<>>
    /\ student_name = <<>>
    /\ email = <<>>
    /\ file_label = <<>>
    /\ res_pc = "resolved"
    /\ RuleUnused
    /\ AuxUnused
    /\ global_specific_config = construct_config(specific_config_setup, 0)
    /\ roster_id = "None"
    /\ now = StartTime + 1
    /\ cfg_input = [visited |-> 0]
    /\ cfg_pc = "ready"
    /\ chosen_file = <<>>
    /\ current_code = Str_no_code
    /\ submissions = <<>>
    /\ disk = [dirs |-> {}, files |-> <<>>]
    /\ active_letter_file = NoPath
    /\ run_log = NoRun

\* the parts of the state no action of this specification changes
RunFixed ==
    <<general_config, global_general_config, filename_separator, file_format_items,
      student_name_in_file_format, late_index_in_file_format, local_general_file,
      file_format_arg, fmt_pc, codefiles, codefile_index, roster_fullname, roster_email,
      ruleVars, auxVars, global_specific_config, roster_id, cfg_input, cfg_pc, backend>>

\* the course-management system drops a new submission into the directory
SubmissionArrives ==
    /\ now < MaxTime
    /\ Len(dir_listing) < MaxDirFiles
    /\ \E id \in RunIdentities : \E text \in RunTexts :
          /\ ~InList(Join(<<id[1], id[2], codefile>>, <<"_">>), dir_listing)
          /\ dir_listing' = Append(dir_listing, Join(<<id[1], id[2], codefile>>, <<"_">>))
          /\ submissions' = (Join(<<id[1], id[2], codefile>>, <<"_">>)
                                :> [text |-> text, mtime |-> now]) @@ submissions
    /\ now' = now + 1
    /\ run_log' = [run_log EXCEPT !.changed = TRUE]
    /\ UNCHANGED <<RunFixed, warnings, studentVars, res_pc, specific_configs,
                   local_specific_files, file_mtime, codefile, chosen_file, current_code,
                   disk, active_letter_file>>

\* a submission in the directory is replaced by a newer upload of the same name
Resubmit ==
    /\ now < MaxTime
    /\ \E i \in 1..Len(dir_listing) : \E text \in RunTexts :
          submissions' = [submissions EXCEPT ![dir_listing[i]] =
                                                 [text |-> text, mtime |-> now]]
    /\ now' = now + 1
    /\ run_log' = [run_log EXCEPT !.changed = TRUE]
    /\ UNCHANGED <<RunFixed, warnings, dir_listing, studentVars, res_pc, specific_configs,
                   local_specific_files, file_mtime, codefile, chosen_file, current_code,
                   disk, active_letter_file>>

\* lines 661-663 and 601-603: the letter on display is saved to self.active_letter_file
LetterSaved(d, letter, t) ==
    IF letter = NoPath THEN d ELSE write_text(d, letter[1], letter[2], t)

\* update_codefile_files_in_gui and update_selected_student, on the student lists that
\* get_student_files has just rebuilt: the first label is chosen
UpdateCodefileFilesInGui ==
    /\ chosen_file' = IF Len(student_name') = 0 THEN <<>> ELSE file_label'[1]
    /\ current_code' =
           IF Len(student_name') = 0 \/ file_label'[1] = <<>> THEN Str_no_code
           ELSE submissions[fullname'[1]].text
    /\ active_letter_file' =
           IF Len(student_name') = 0 \/ file_label'[1] = <<>> THEN NoPath
           ELSE <<DirName(email'[1], student_name'[1]), versioned_filename'[1] \o Str_ltr>>

\* choose_codefile(): the radio button of the codefile is pressed
ChooseCodefile ==
    /\ res_pc = "resolved"
    /\ codefile' = codefiles[codefile_index + 1]
    /\ get_student_files(FALSE)
    /\ UpdateCodefileFilesInGui
    /\ disk' = LetterSaved(disk, active_letter_file, now)
    /\ UNCHANGED <<RunFixed, warnings, dir_listing, specific_configs, local_specific_files,
                   file_mtime, now, submissions, run_log>>

\* __init__ (lines 67-74): the program is started again in the directory
StartAgain ==
    /\ res_pc = "stopped"
    /\ codefile' = codefiles[1]
    /\ get_student_files(TRUE)
    /\ UpdateCodefileFilesInGui
    /\ UNCHANGED <<RunFixed, warnings, dir_listing, specific_configs, local_specific_files,
                   file_mtime, now, submissions, disk, run_log>>

\* run_all(), the whole batch
RunAll ==
    /\ res_pc = "resolved"
    /\ now < MaxTime
    /\ RunAllStored(run_all(Len(file_label), now))
    /\ now' = now + 1
    /\ UNCHANGED <<RunFixed, dir_listing, studentVars, res_pc, specific_configs,
                   local_specific_files, file_mtime, codefile, chosen_file, current_code,
                   submissions>>

\* run_all() with the process ended before the batch is through
RunAllInterrupted ==
    /\ res_pc = "resolved"
    /\ now < MaxTime
    /\ ~RunAllSkipped
    /\ \E limit \in 0..(Len(file_label) - 1) : RunAllStored(run_all(limit, now))
    /\ now' = now + 1
    /\ res_pc' = "stopped"
    /\ UNCHANGED <<RunFixed, dir_listing, studentVars, specific_configs,
                   local_specific_files, file_mtime, codefile, chosen_file, current_code,
                   submissions>>

RunOneStored(out) ==
    /\ disk' = out.disk
    /\ active_letter_file' = out.letter
    /\ warnings' = warnings \o out.shown

\* run_one() for the student chosen in the dropdown
RunOneChosen ==
    /\ res_pc = "resolved"
    /\ now < MaxTime
    /\ RunOneStored(run_one(disk, active_letter_file, chosen_file, now))
    /\ now' = now + 1
    /\ UNCHANGED <<RunFixed, dir_listing, studentVars, res_pc, specific_configs,
                   local_specific_files, file_mtime, codefile, chosen_file, current_code,
                   submissions, run_log>>

\* specific_config_dialog(): the dialog is closed with OK
SpecificConfigDialog ==
    /\ res_pc = "resolved"
    /\ now < MaxTime
    /\ CodefileConfig # NoneConfig
    /\ \E prepend \in RunPrepends :
          /\ specific_configs' =
                 [specific_configs EXCEPT !.entries[codefile \o Str_config] =
                      [@ EXCEPT !.code_prepend = prepend, !.config_mod_time = now]]
          /\ local_specific_files' =
                 [local_specific_files EXCEPT ![codefile \o Str_config] =
                      ConfigText([CodefileConfig EXCEPT !.code_prepend = prepend,
                                                        !.config_mod_time = now],
                                 specific_config_setup)]
    /\ file_mtime' = [file_mtime EXCEPT !.specific[codefile \o Str_config] = now]
    /\ now' = now + 1
    /\ run_log' = [run_log EXCEPT !.changed = TRUE]
    /\ UNCHANGED <<RunFixed, warnings, dir_listing, studentVars, res_pc, codefile,
                   chosen_file, current_code, submissions, disk, active_letter_file>>

NextRun ==
    \/ SubmissionArrives
    \/ Resubmit
    \/ ChooseCodefile
    \/ StartAgain
    \/ RunAll
    \/ RunAllInterrupted
    \/ RunOneChosen
    \/ SpecificConfigDialog

SpecRun == InitRun /\ [][NextRun]_vars

(***************************************************************************)
(* Claims about run_all (under SpecRun)                                    *)
(***************************************************************************)

\* the k-th student file of the last batch was stale when its pass came: its output
\* artifact (time -1 when there was none) was older than the submission or than the
\* configuration of the codefile
WasStale(k) ==
    \/ run_log.iterations[k].last_run_time < run_log.iterations[k].input_mod_time
    \/ run_log.iterations[k].last_run_time < run_log.iterations[k].config_time

\* C1: a run_all that has returned has passed every resolved student file, and has
\* called run_one for a student file if and only if lastRun < inputModTime or
\* lastRun < configModTime held for that student file, lastRun being the time of its
\* '<versioned filename>out' artifact in its sandbox, or a time below every real one
\* when there is no such artifact; so a student file without an artifact is always run
\* and one whose artifact is as new as the submission and the configuration is skipped.
C1_RunOneInvokedIffStale ==
    run_log.status = "returned" =>
        /\ Len(run_log.iterations) = run_log.students
        /\ \A k \in 1..Len(run_log.iterations) :
               run_log.iterations[k].invoked <=> WasStale(k)

\* the k-th student file of the last batch had, when the batch ended, an output artifact
\* at least as new as its submission and the configuration of the codefile
FreshAfterRun(k) ==
    /\ run_log.artifacts[k] >= run_log.iterations[k].input_mod_time
    /\ run_log.artifacts[k] >= run_log.iterations[k].config_time

\* C2: run-pending is idempotent and resumable: every student file that run_all handed
\* to run_one has, when that run_all ends, an output artifact newer than the submission
\* and the configuration; and a run_all issued after another one (completed or
\* interrupted) with no change to submissions or configuration in between hands to
\* run_one none of the student files the earlier one already handed to it.
C2_RunPendingIsIdempotent ==
    /\ \A k \in 1..Len(run_log.iterations) :
           run_log.iterations[k].invoked => FreshAfterRun(k)
    /\ run_log.previous \in {"returned", "interrupted", "raised"} =>
           Invoked(run_log.iterations) \cap run_log.previous_invoked = {}

(***************************************************************************)
(* Claims about invalid regular expressions (under SpecRule)               *)
(***************************************************************************)

\* the pattern of a rule line, once its points are pulled off
PatternOf(line) == pull_off_points(line).line

\* the rule line is a regular expression that re.compile rejects
IsInvalidRegex(line) == ~IsQuoted(PatternOf(line)) /\ ~RegexCompiles(PatternOf(line))

\* some rule of the text is an invalid regular expression
HoldsInvalidRegex(t) == \E i \in 1..Len(RulesOf(t)) : IsInvalidRegex(RulesOf(t)[i])

\* the call returned the sentinel -9999 and the failure text
ReturnedSentinel ==
    /\ rule_result.status = "returned"
    /\ SamePoints(rule_result.points_docked, [isNone |-> FALSE, num |-> -9999, den |-> 1])
    /\ rule_result.out_analysis = <<Message(NonePoints, "Bad Regular expression", "", <<>>)>>

\* C11: whenever a rule line of a req_and_prohib call, in the required list or in the
\* prohibited list, is an invalid regular expression, the call returns the sentinel
\* point value -9999 with a failure text; it neither raises nor returns a normal score.
C11_InvalidRegexReturnsSentinel ==
    (rule_pc = "done" /\ (HoldsInvalidRegex(rule_config.req)
                            \/ HoldsInvalidRegex(rule_config.prohib)))
        => ReturnedSentinel

(***************************************************************************)
(* Specification SpecDecode: parse_one_filename applied to one raw name    *)
(***************************************************************************)

MaxNameParts == 4

Str_late == <<"l", "a", "t", "e">>
Str_LATE == <<"L", "A", "T", "E">>
Str_hw == <<"h", "w">>
Str_hw12R == <<"h", "w", "-", "1", "2", ".", "R">>
Str_hw10R == <<"h", "w", "-", "1", "-", "0", ".", "R">>
Str_dash1R == <<"-", "1", ".", "R">>

\* the parts a raw name is made of
NameParts ==
    {Str_al, Str_late, Str_LATE, Str_t1, Str_hwR, Str_hw12R, Str_hw10R, Str_hw, Str_dash1R}

\* the raw names handed to the decoder
RawNames ==
    {Join(p, <<"_">>) : p \in UNION {[1..n -> NameParts] : n \in 1..MaxNameParts}}

\* accepted formats: the default, two with the late tag, one by email with junk
DecodeFormats ==
    { DefaultFileFormat,
      <<"%", "s", "_", "%", "l", "_", "%", "t", "_", "%", "f">>,
      <<"%", "s", "_", "%", "t", "_", "%", "l", "_", "%", "f">>,
      <<"%", "e", "_", "%", "j", "_", "%", "f">> }

InitDecode ==
    /\ global_general_config = HardcodedGeneralConfig
    /\ \E ff \in DecodeFormats :
          /\ general_config = [HardcodedGeneralConfig EXCEPT !.file_format = ff]
          /\ DecoderIs(ff)
          /\ file_format_arg = ff
    /\ local_general_file = Absent
    /\ warnings = <<>>
    /\ fmt_pc = "set"
    /\ ResolverUnused
    /\ RuleUnused
    /\ ConfigUnused
    /\ RunUnused
    /\ ClassifyUnused
    /\ GradeUnused
    /\ parse_name \in RawNames
    /\ parse_rtn = [status |-> "none"]
    /\ parse_pc = "call"

\* what a call of parse_one_filename(name) gives back: the record it returns,
\* or the AttributeError of line 839
CallOf(rtn) ==
    IF rtn.raised THEN [status |-> "raised", rtn |-> rtn]
    ELSE [status |-> "returned", rtn |-> rtn]

\* parse_codefile_names line 867: elements = self.parse_one_filename(fname)
CallParseOneFilename ==
    /\ parse_pc = "call"
    /\ parse_rtn' = CallOf(parse_one_filename(parse_name))
    /\ parse_pc' = "done"
    /\ UNCHANGED <<parse_name, fmtVars, resVars, ruleVars, cfgVars, runVars, postVars,
                   gradeVars>>

NextDecode == CallParseOneFilename

SpecDecode == InitDecode /\ [][NextDecode]_vars

(***************************************************************************)
(* Claims about parse_one_filename (under SpecDecode)                      *)
(***************************************************************************)

\* the parts of the raw name, as the separator cuts it
RawParts == Split(parse_name, filename_separator)

\* the format has the late tag and the part at its position reads "late"
LateAtPosition ==
    /\ late_index_in_file_format >= 0
    /\ late_index_in_file_format < Len(RawParts)
    /\ Lower(RawParts[late_index_in_file_format + 1]) = Str_late

\* the number of parts compared against the format, after the late part is stripped
ComparedCount == IF LateAtPosition THEN Len(RawParts) - 1 ELSE Len(RawParts)

\* C12: parse_one_filename never raises: for every raw name whose part count
\* (after any late-field stripping) is neither the format's field count nor
\* the legacy short-form count of 2 it returns a record with an empty filename
\* field, and for every other raw name it returns a record too.
C12_ParseOneFilenameNeverRaises ==
    parse_pc = "done" =>
        /\ parse_rtn.status = "returned"
        /\ (ComparedCount # Len(file_format_items) /\ ComparedCount # 2)
               => parse_rtn.rtn.filename = <<>>

\* the parts compared against the format: the raw parts without the part at the
\* late position when that part reads "late"
ComparedParts ==
    IF LateAtPosition
    THEN SubSeq(RawParts, 1, late_index_in_file_format)
         \o SubSeq(RawParts, late_index_in_file_format + 2, Len(RawParts))
    ELSE RawParts

\* a part decoded as the filename field (lines 833-846)
AsFilename(value) == ApplyFilename(EmptyRecord, value, DotExtSearch(value))

\* C13: whenever the parts compared against the format number exactly 2 and
\* that is fewer than the format's field count (also when a late field was
\* stripped first), parse_one_filename decodes the legacy short form: part 0
\* is the student name and part 1 is decoded as the filename, whatever tags
\* the format assigns to those positions.
C13_TwoPartsDecodeAsShortForm ==
    (/\ parse_pc = "done"
     /\ parse_rtn.status = "returned"
     /\ ComparedCount = 2
     /\ ComparedCount < Len(file_format_items))
        => /\ parse_rtn.rtn.student_name = ComparedParts[1]
           /\ parse_rtn.rtn.filename = AsFilename(ComparedParts[2]).filename
           /\ parse_rtn.rtn.version = AsFilename(ComparedParts[2]).version

\* the record the decoder fills from parts mapped against the late-free format
MappedAgainstFormat(parts, late) == DecodeParts(parts, file_format_items, late)

\* C14: when the format contains the late tag, parse_one_filename sets the late
\* flag if and only if the part at the configured late position equals "late"
\* case-insensitively; in that case that part is removed and the remaining
\* parts are mapped against the format without the late tag, and otherwise
\* nothing is removed and the parts are mapped against that same format.
C14_LatePartStrippedAtItsPosition ==
    (parse_pc = "done" /\ late_index_in_file_format >= 0)
        => /\ parse_rtn.rtn.late = LateAtPosition
           /\ parse_rtn.rtn = MappedAgainstFormat(ComparedParts, LateAtPosition)

\* the parts the loop at line 821 runs over, and the tags it reads for them
LoopParts ==
    IF LateDropped(RawParts, late_index_in_file_format)
    THEN RemoveFirst(RawParts[late_index_in_file_format + 1], RawParts)
    ELSE RawParts

LoopFields ==
    IF IsShortForm(Len(LoopParts), Len(file_format_items),
                   LateDropped(RawParts, late_index_in_file_format))
    THEN << <<"%", "s">>, <<"%", "f">> >>
    ELSE file_format_items

\* the loop reaches a part whose tag is the filename tag
HasFilenameField ==
    /\ ~PartCountRejected(Len(LoopParts), Len(file_format_items))
    /\ \E k \in 1..Len(LoopParts) : LoopFields[k] = <<"%", "f">>

FilenameField ==
    LoopParts[CHOOSE k \in 1..Len(LoopParts) : LoopFields[k] = <<"%", "f">>]

\* the field without its trailing extension, and that extension
StemOf(value) ==
    IF DotExtSearch(value).matched THEN DotExtSearch(value).stem ELSE value

ExtensionOf(value) ==
    IF DotExtSearch(value).matched THEN DotExtSearch(value).ext ELSE <<>>

\* the length of the hyphen-and-digits suffix the stem ends with, or 0
VersionSuffixLen(stem) ==
    IF Len(stem) >= 2 /\ stem[Len(stem) - 1] = "-" /\ stem[Len(stem)] \in Digits THEN 2
    ELSE IF /\ Len(stem) >= 3
            /\ stem[Len(stem) - 2] = "-"
            /\ stem[Len(stem) - 1] \in Digits
            /\ stem[Len(stem)] \in Digits THEN 3
    ELSE 0

StatedVersion(value) ==
    IF VersionSuffixLen(StemOf(value)) = 0 THEN 0
    ELSE DigitsToInt(SubSeq(StemOf(value),
                            Len(StemOf(value)) - VersionSuffixLen(StemOf(value)) + 2,
                            Len(StemOf(value))))

StatedFilename(value) ==
    IF VersionSuffixLen(StemOf(value)) = 0 THEN value
    ELSE SubSeq(StemOf(value), 1, Len(StemOf(value)) - VersionSuffixLen(StemOf(value)))
         \o ExtensionOf(value)

\* C15: for the filename field, parse_one_filename strips the trailing
\* extension; if the remaining stem ends with a hyphen followed by one or two
\* digits, the version is that number and the canonical filename is the stem
\* without that suffix plus the extension; otherwise the version is 0 and the
\* canonical filename is the field unchanged.
C15_FilenameFieldVersionAndCanonicalName ==
    (parse_pc = "done" /\ HasFilenameField)
        => /\ parse_rtn.status = "returned"
           /\ parse_rtn.rtn.version = StatedVersion(FilenameField)
           /\ parse_rtn.rtn.filename = StatedFilename(FilenameField)

\* the text a decoded record puts at the position of one tag of the format; a
\* junk field is not kept in the record and is written back empty
FieldText(rtn, field) ==
    IF field = <<"%", "s">> THEN rtn.student_name
    ELSE IF field = <<"%", "e">> THEN rtn.email
    ELSE IF field = <<"%", "t">> THEN rtn.timestamp
    ELSE IF field = <<"%", "f">> THEN VersionedFilename(rtn)
    ELSE <<>>

\* the raw name a decoded record is written back to: its fields in the order of
\* the format, joined by the separator
Reencode(rtn) ==
    Join([k \in 1..Len(file_format_items) |-> FieldText(rtn, file_format_items[k])],
         <<filename_separator>>)

\* the caller's test of line 868: the name was decoded
DecodedSuccessfully ==
    parse_pc = "done" /\ parse_rtn.status = "returned" /\ parse_rtn.rtn.filename # <<>>

DecodedAgain == CallOf(parse_one_filename(Reencode(parse_rtn.rtn)))

\* C16: decode round trip: for every record successfully decoded by
\* parse_one_filename, writing it back as a raw name (the same student, email
\* and timestamp fields joined by the separator, with the versioned filename
\* built by parse_codefile_names as the filename field) and decoding that name
\* gives the same student name, email, canonical filename and version.
C16_DecodeRoundTrip ==
    DecodedSuccessfully
        => /\ DecodedAgain.status = "returned"
           /\ DecodedAgain.rtn.student_name = parse_rtn.rtn.student_name
           /\ DecodedAgain.rtn.email = parse_rtn.rtn.email
           /\ DecodedAgain.rtn.filename = parse_rtn.rtn.filename
           /\ DecodedAgain.rtn.version = parse_rtn.rtn.version

(***************************************************************************)
(* Output classifiers: R_post_analyze, SAS_post_analyze, PY_post_analyze   *)
(* A transcript is a text; its entries and the message block are texts.    *)
(* out_analysis and points_text are sequences of messages: the tally lines *)
(* of the classifier followed by the messages of the rule engine.          *)
(***************************************************************************)

\* txt starts with p (a search of "^p")
StartsWith(txt, p) == Len(txt) >= Len(p) /\ SubSeq(txt, 1, Len(p)) = p

\* re_warning = "^Warning message:" and re_error = "^(Error in|Error:)" of R
R_re_warning == {<<"W", "a", "r", "n", "i", "n", "g", " ", "m", "e", "s", "s", "a", "g", "e", ":">>}

R_re_error == {<<"E", "r", "r", "o", "r", " ", "i", "n">>, <<"E", "r", "r", "o", "r", ":">>}

\* re_warning = "^WARNING:" and re_error = "^ERROR:" of SAS
SAS_re_warning == {<<"W", "A", "R", "N", "I", "N", "G", ":">>}

SAS_re_error == {<<"E", "R", "R", "O", "R", ":">>}

\* [num for (num, txt) in enumerate(textx) if re.search(txt) is not None],
\* as positions 1..len(textx): position k is line number k - 1
HeaderNums(textx, heads) ==
    SelectSeq([k \in 1..Len(textx) |-> k],
              LAMBDA k : \E h \in heads : StartsWith(textx[k], h))

\* "@ " + str(i) + " "
EntryStart(k) == <<"@", " ">> \o NatToStr(k - 1) \o <<" ">>

\* the nested tests of lines 1260-1269 (and 1346-1355, 1379-1388): up to `left`
\* lines from position k on, each followed by a newline, until the transcript
\* ends, a line is empty or a line starts with one of the characters `stops`
RECURSIVE Continuation(_, _, _, _)
Continuation(textx, k, left, stops) ==
    IF left = 0 \/ k > Len(textx) THEN <<>>
    ELSE IF Len(textx[k]) = 0 \/ textx[k][1] \in stops THEN <<>>
    ELSE textx[k] \o <<"\n">> \o Continuation(textx, k + 1, left - 1, stops)

\* the number of lines an entry may take in after its header
MaxContinuation == 3

\* ignore_re = "package .* was built under R version": searched in txt
BuiltUnderSearch(txt) ==
    \E i \in 1..Len(txt), j \in 1..Len(txt) :
        /\ j >= i + 8
        /\ j + 25 <= Len(txt)
        /\ SubSeq(txt, i, i + 7) = <<"p", "a", "c", "k", "a", "g", "e", " ">>
        /\ SubSeq(txt, j, j + 25) = <<" ", "w", "a", "s", " ", "b", "u", "i", "l", "t", " ", "u", "n", "d", "e", "r", " ", "R", " ", "v", "e", "r", "s", "i", "o", "n">>
        /\ \A m \in (i + 8)..(j - 1) : txt[m] # "\n"

\* the positions of lst that are not in todrop, in order
PositionsLeft(lst, todrop) ==
    SelectSeq([i \in 1..Len(lst) |-> i], LAMBDA i : i \notin todrop)

\* multi_drop(lst, todrop): lst without its elements at the positions todrop
multi_drop(lst, todrop) ==
    [k \in 1..Len(PositionsLeft(lst, todrop)) |-> lst[PositionsLeft(lst, todrop)[k]]]

\* ignore_nums of lines 1239-1240 and 1273-1274
BuiltUnderNums(lst) == {n \in 1..Len(lst) : BuiltUnderSearch(lst[n])}

\* line 1236: the entry of the R error at position k; textx[i+1] does not exist
\* when the header is the last line
R_ErrorEntry(textx, k) == EntryStart(k) \o textx[k] \o <<"\n">> \o textx[k + 1]

R_ErrorEntriesRaise(textx, nums) == \E n \in 1..Len(nums) : nums[n] = Len(textx)

R_ErrorEntries(textx, nums) == [n \in 1..Len(nums) |-> R_ErrorEntry(textx, nums[n])]

\* lines 1258-1270: the entry of the R warning at position k
R_WarningEntry(textx, k) ==
    EntryStart(k) \o Continuation(textx, k + 1, MaxContinuation, {">"})

R_WarningEntries(textx, nums) == [n \in 1..Len(nums) |-> R_WarningEntry(textx, nums[n])]

\* lines 1345-1355: the entry of the SAS error at position k
SAS_ErrorEntry(logx, k) ==
    EntryStart(k) \o logx[k] \o <<"\n">> \o Continuation(logx, k + 1, MaxContinuation, Digits)

SAS_ErrorEntries(logx, nums) == [n \in 1..Len(nums) |-> SAS_ErrorEntry(logx, nums[n])]

\* lines 1377-1388: the entry of the SAS warning at position k
SAS_WarningEntry(logx, k) ==
    EntryStart(k) \o Continuation(logx, k + 1, MaxContinuation, {">"})

SAS_WarningEntries(logx, nums) == [n \in 1..Len(nums) |-> SAS_WarningEntry(logx, nums[n])]

\* ignore_re = "Errors printed on page" of the SAS errors
PrintedOnPageSearch(txt) == IsSubstr(<<"E", "r", "r", "o", "r", "s", " ", "p", "r", "i", "n", "t", "e", "d", " ", "o", "n", " ", "p", "a", "g", "e">>, txt)

\* ignore_nums of lines 1358-1359
PrintedOnPageNums(lst) == {n \in 1..Len(lst) : PrintedOnPageSearch(lst[n])}

\* lines 1391-1395: ignore_text, "registry customizations" joined by "|" with the
\* lines of the stripped dropped_messages
IgnoreText(dropped_messages) ==
    IF Len(Strip(dropped_messages)) > 0
    THEN Join(<< <<"r", "e", "g", "i", "s", "t", "r", "y", " ", "c", "u", "s", "t", "o", "m", "i", "z", "a", "t", "i", "o", "n", "s">> >> \o Split(Strip(dropped_messages), "\n"),
              <<"|">>)
    ELSE <<"r", "e", "g", "i", "s", "t", "r", "y", " ", "c", "u", "s", "t", "o", "m", "i", "z", "a", "t", "i", "o", "n", "s">>

\* re.compile(ignore_text).search(txt): one of the alternatives is found
IgnoreSearch(ignore_text, txt) ==
    \E a \in 1..Len(Split(ignore_text, "|")) : RegexSearch(Split(ignore_text, "|")[a], txt)

\* ignore_nums of lines 1397-1398
IgnoreNums(lst, ignore_text) == {n \in 1..Len(lst) : IgnoreSearch(ignore_text, lst[n])}

\* "Allowed / actual errors = " + str(config['max_errors']) + " / " + str(count) + "\n"
Tally(what, allowed, actual) ==
    Message(NonePoints, "Allowed / actual", what,
            IntToStr(allowed) \o <<" ", "/", " ">> \o IntToStr(actual))

\* for line in lines: messages += line + "\n"
RECURSIVE LinesBlock(_)
LinesBlock(lines) ==
    IF lines = <<>> THEN <<>> ELSE Head(lines) \o <<"\n">> \o LinesBlock(Tail(lines))

\* the messages text after the errors and the warnings were added (lines
\* 1247-1250 and 1278-1283)
MessagesOf(error_lines, warning_lines) ==
    (IF Len(error_lines) > 0
     THEN <<"*", "*", "*", "*", " ", "E", "R", "R", "O", "R", "S", " ", "*", "*", "*", "*", "\n">> \o LinesBlock(error_lines) ELSE <<>>)
    \o (IF Len(warning_lines) > 0
        THEN (IF Len(error_lines) > 0 THEN <<"\n">> ELSE <<>>)
             \o <<"*", "*", "*", "*", " ", "W", "A", "R", "N", "I", "N", "G", "S", " ", "*", "*", "*", "*", "\n">> \o LinesBlock(warning_lines)
        ELSE <<>>)

NoMessages == <<"(", "n", "o", " ", "w", "a", "r", "n", "i", "n", "g", "s", " ", "o", "r", " ", "e", "r", "r", "o", "r", "s", ")">>

\* the two tally lines of out_analysis and points_text
Tallies(config, error_lines, warning_lines) ==
    << Tally("errors", config.max_errors, Len(error_lines)),
       Tally("warnings", config.max_warnings, Len(warning_lines)) >>

\* the rules of the output category of a configuration
OutputRules(config) ==
    [req |-> config.req_output, prohib |-> config.prohib_output, code_or_output |-> "output"]

\* what a classifier gives back when it raises
PostRaised ==
    [status |-> "raised", points_docked |-> NonePoints, points_text |-> <<>>,
     messages |-> <<>>, out_analysis |-> <<>>]

\* points_docked = 0.0, then points_docked += pts when pts is not None
DockedBy(rules) == IF rules.points_docked.isNone THEN ZeroPoints
                   ELSE AddPoints(ZeroPoints, rules.points_docked)

\* R_post_analyze lines 1290-1317, with the kept entries and the rule result
R_Finish(config, error_lines, warning_lines, rules) ==
    IF rules.status # "returned" THEN PostRaised
    ELSE [status |-> "returned",
          points_docked |-> DockedBy(rules),
          points_text |-> Tallies(config, error_lines, warning_lines) \o rules.out_analysis,
          messages |-> IF MessagesOf(error_lines, warning_lines) = <<>> THEN NoMessages
                       ELSE MessagesOf(error_lines, warning_lines),
          out_analysis |-> Tallies(config, error_lines, warning_lines) \o rules.out_analysis]

\* the classifier without the removal of lines 1271-1275: every warning entry is kept
R_ClassifyEveryWarning(text, textx, config) ==
    IF R_ErrorEntriesRaise(textx, HeaderNums(textx, R_re_error)) THEN PostRaised
    ELSE R_Finish(config,
                  multi_drop(R_ErrorEntries(textx, HeaderNums(textx, R_re_error)),
                             BuiltUnderNums(R_ErrorEntries(textx, HeaderNums(textx, R_re_error)))),
                  R_WarningEntries(textx, HeaderNums(textx, R_re_warning)),
                  req_and_prohib(OutputRules(config), text, "output"))

\* R_post_analyze(sandbox, codefile, outfile, text, config, file_label)
R_Classify(text, textx, config) ==
    IF R_ErrorEntriesRaise(textx, HeaderNums(textx, R_re_error)) THEN PostRaised
    ELSE R_Finish(config,
                  multi_drop(R_ErrorEntries(textx, HeaderNums(textx, R_re_error)),
                             BuiltUnderNums(R_ErrorEntries(textx, HeaderNums(textx, R_re_error)))),
                  multi_drop(R_WarningEntries(textx, HeaderNums(textx, R_re_warning)),
                             BuiltUnderNums(R_WarningEntries(textx, HeaderNums(textx, R_re_warning)))),
                  req_and_prohib(OutputRules(config), text, "output"))

R_post_analyze(text, config) == R_Classify(text, Split(text, "\n"), config)

\* SAS_post_analyze lines 1420-1450: the rule text goes to out_analysis only, and
\* the log is added to a non-empty messages text
SAS_Finish(config, log, error_lines, warning_lines, rules) ==
    IF rules.status # "returned" THEN PostRaised
    ELSE [status |-> "returned",
          points_docked |-> DockedBy(rules),
          points_text |-> Tallies(config, error_lines, warning_lines),
          messages |-> IF MessagesOf(error_lines, warning_lines) = <<>> THEN NoMessages
                       ELSE MessagesOf(error_lines, warning_lines)
                            \o <<"\n", "*", "*", "*", "*", "*", "*", "*", "*", "*", "*", "*", "*", "*", "*", "*", "*", "*", "*", "*", "*", "*", "*", "*", "*", "*", "*", "*", "*", "*", "*", "*", "*", "*", "*", "*", "*", "*", "*", "*", "*", "*", "*", "*", "*", "\n">> \o log,
          out_analysis |-> Tallies(config, error_lines, warning_lines) \o rules.out_analysis]

\* the warnings of the log that are kept (lines 1369-1400); the compilation of
\* ignore_text is reached only when the log has a warning header
SAS_WarningsRaise(logx, config) ==
    /\ Len(HeaderNums(logx, SAS_re_warning)) > 0
    /\ ~RegexCompiles(IgnoreText(config.dropped_messages))

SAS_WarningsKept(logx, config) ==
    multi_drop(SAS_WarningEntries(logx, HeaderNums(logx, SAS_re_warning)),
               IgnoreNums(SAS_WarningEntries(logx, HeaderNums(logx, SAS_re_warning)),
                          IgnoreText(config.dropped_messages)))

SAS_Classify(text, log, logx, config) ==
    IF SAS_WarningsRaise(logx, config) THEN PostRaised
    ELSE SAS_Finish(config, log,
                    multi_drop(SAS_ErrorEntries(logx, HeaderNums(logx, SAS_re_error)),
                               PrintedOnPageNums(SAS_ErrorEntries(logx, HeaderNums(logx, SAS_re_error)))),
                    SAS_WarningsKept(logx, config),
                    req_and_prohib(OutputRules(config), text, "output"))

\* SAS_post_analyze(sandbox, codefile, outfile, text, config, file_label), with
\* log what get_text gave for the log file (Absent when None: log.split raises)
SAS_post_analyze(text, log, config) ==
    IF log = Absent THEN PostRaised
    ELSE SAS_Classify(text, log, Split(log, "\n"), config)

\* PY_post_analyze lines 1468-1495, with the rule result; messages is what
\* get_text gave for the err file (Absent when None: write_text raises on it)
PY_Finish(err, rules) ==
    IF rules.status # "returned" \/ err = Absent THEN PostRaised
    ELSE [status |-> "returned",
          points_docked |-> DockedBy(rules),
          points_text |-> <<>>,
          messages |-> IF err = <<>> THEN NoMessages ELSE err,
          out_analysis |-> IF rules.out_analysis = <<>>
                           THEN <<Message(NonePoints, "(no output problems)", "", <<>>)>>
                           ELSE rules.out_analysis]

\* PY_post_analyze(sandbox, codefile, outfile, text, config, file_label)
PY_post_analyze(text, err, config) ==
    PY_Finish(err, req_and_prohib(OutputRules(config), text, "output"))

(***************************************************************************)
(* Specification SpecClassify: one classifier run on one transcript        *)
(***************************************************************************)

MaxTranscript == 3

Str_oops == <<"o", "o", "p", "s">>

\* lines of an R transcript: the headers, a benign notice, a prompt, an empty
\* line, a plain line
R_Lines ==
    { <<"W", "a", "r", "n", "i", "n", "g", " ", "m", "e", "s", "s", "a", "g", "e", ":">>, <<"E", "r", "r", "o", "r", ":", " ", "x">>, <<"E", "r", "r", "o", "r", " ", "i", "n", " ", "f">>,
      <<"p", "a", "c", "k", "a", "g", "e", " ", "a", " ", "w", "a", "s", " ", "b", "u", "i", "l", "t", " ", "u", "n", "d", "e", "r", " ", "R", " ", "v", "e", "r", "s", "i", "o", "n", " ", "3">>, <<">", " ", "x">>, <<>>, Str_oops }

\* lines of a SAS log: the headers, the benign texts, a numbered line, a line
\* starting with ">", an empty line, a plain line
SAS_Lines ==
    { <<"W", "A", "R", "N", "I", "N", "G", ":", " ", "w">>, <<"E", "R", "R", "O", "R", ":", " ", "e">>, <<"E", "R", "R", "O", "R", ":", " ", "E", "r", "r", "o", "r", "s", " ", "p", "r", "i", "n", "t", "e", "d", " ", "o", "n", " ", "p", "a", "g", "e", " ", "1">>,
      <<"r", "e", "g", "i", "s", "t", "r", "y", " ", "c", "u", "s", "t", "o", "m", "i", "z", "a", "t", "i", "o", "n", "s">>, <<"1", " ", "d", "a", "t", "a">>, <<">", " ", "x">>, <<>>, Str_oops }

TextsOf(lines) ==
    {Join(t, <<"\n">>) : t \in UNION {[1..n -> lines] : n \in 1..MaxTranscript}}

\* the fields of the specific configuration the classifiers read
ClassifyConfig(max_warnings, dropped_messages, req_output, prohib_output) ==
    [max_errors |-> 0, max_warnings |-> max_warnings, dropped_messages |-> dropped_messages,
     req_output |-> req_output, prohib_output |-> prohib_output]

ClassifyConfigs ==
    { ClassifyConfig(0, <<>>, <<>>, <<>>),
      ClassifyConfig(1, Str_oops, <<>>, <<>>),
      ClassifyConfig(0, <<"(", "o", "o">>, <<>>, <<>>),
      ClassifyConfig(0, <<>>, <<"{", "-", "5", "}", "b", "a", "d">>, <<>>),
      ClassifyConfig(0, Str_oops, <<>>, <<"{", "-", "5", "}", "o", "o", "p", "s">>),
      ClassifyConfig(0, <<>>, <<>>, <<"(", "b", "a">>) }

\* the calls post_analyze makes (lines 1191-1202): the classifier of the
\* extension, the output text, the log (SAS) or err file (Python), the config
ClassifyCalls ==
    {[classifier |-> "R", text |-> t, aux |-> <<>>, config |-> c] :
        t \in TextsOf(R_Lines), c \in ClassifyConfigs}
    \cup
    {[classifier |-> "SAS", text |-> t, aux |-> l, config |-> c] :
        t \in {Str_oops, <<>>}, l \in TextsOf(SAS_Lines) \cup {Absent}, c \in ClassifyConfigs}
    \cup
    {[classifier |-> "PY", text |-> t, aux |-> e, config |-> c] :
        t \in {Str_oops, <<>>}, e \in {<<>>, <<"T", "r", "a", "c", "e", "b", "a", "c", "k">>, Absent}, c \in ClassifyConfigs}

InitClassify ==
    /\ global_general_config = HardcodedGeneralConfig
    /\ general_config = HardcodedGeneralConfig
    /\ filename_separator = "None"
    /\ file_format_items = <<>>
    /\ student_name_in_file_format = FALSE
    /\ late_index_in_file_format = -1
    /\ local_general_file = Absent
    /\ warnings = <<>>
    /\ file_format_arg = <<>>
    /\ fmt_pc = "call"
    /\ ResolverUnused
    /\ RuleUnused
    /\ ConfigUnused
    /\ RunUnused
    /\ DecodeUnused
    /\ GradeUnused
    /\ post_call \in ClassifyCalls
    /\ post_result = [status |-> "none"]
    /\ post_pc = "call"

ClassifyFixed ==
    <<post_call, fmtVars, resVars, ruleVars, cfgVars, runVars, decVars, gradeVars>>

\* post_analyze lines 1191-1194: ext in ('.R', '.RMD')
R_PostAnalyze ==
    /\ post_pc = "call"
    /\ post_call.classifier = "R"
    /\ post_result' = R_post_analyze(post_call.text, post_call.config)
    /\ post_pc' = "done"
    /\ UNCHANGED ClassifyFixed

\* post_analyze lines 1195-1198: ext in ('.SAS')
SAS_PostAnalyze ==
    /\ post_pc = "call"
    /\ post_call.classifier = "SAS"
    /\ post_result' = SAS_post_analyze(post_call.text, post_call.aux, post_call.config)
    /\ post_pc' = "done"
    /\ UNCHANGED ClassifyFixed

\* post_analyze lines 1199-1202: ext in ('.PY')
PY_PostAnalyze ==
    /\ post_pc = "call"
    /\ post_call.classifier = "PY"
    /\ post_result' = PY_post_analyze(post_call.text, post_call.aux, post_call.config)
    /\ post_pc' = "done"
    /\ UNCHANGED ClassifyFixed

NextClassify == R_PostAnalyze \/ SAS_PostAnalyze \/ PY_PostAnalyze

SpecClassify == InitClassify /\ [][NextClassify]_vars

(***************************************************************************)
(* Claims about the output classifiers (under SpecClassify)                *)
(***************************************************************************)

\* the classifier of the call has returned its summary
Classified(classifier) ==
    /\ post_pc = "done"
    /\ post_call.classifier = classifier
    /\ post_result.status = "returned"

\* the lines of the R transcript
R_textx == Split(post_call.text, "\n")

\* every warning entry R_post_analyze builds from the transcript
R_AllWarnings == R_WarningEntries(R_textx, HeaderNums(R_textx, R_re_warning))

\* those of them that read "package ... was built under R version"
R_BenignWarnings == SelectSeq(R_AllWarnings, BuiltUnderSearch)

\* C17: in R_post_analyze a warning entry whose text matches
\* "package .* was built under R version" is removed before counting and
\* display: it adds 0 to the warning count reported against max_warnings and
\* does not appear in the message block.
C17_BenignRWarningsNotCountedNorShown ==
    Classified("R") =>
        /\ post_result.out_analysis[2] =
               Tally("warnings", post_call.config.max_warnings,
                     Len(R_AllWarnings) - Len(R_BenignWarnings))
        /\ \A n \in 1..Len(R_BenignWarnings) :
               ~IsSubstr(R_BenignWarnings[n], post_result.messages)

\* an R transcript with a benign warning next to one that is counted and shown
C17_Witness ==
    /\ Classified("R")
    /\ Len(R_BenignWarnings) > 0
    /\ Len(R_AllWarnings) > Len(R_BenignWarnings)
    /\ IsSubstr(<<"*", " ", "W", "A", "R", "N", "I", "N", "G", "S", " ", "*">>,
                post_result.messages)

\* the regular expressions of dropped_messages, one per line
DroppedList ==
    IF Len(Strip(post_call.config.dropped_messages)) > 0
    THEN Split(Strip(post_call.config.dropped_messages), "\n")
    ELSE <<>>

\* txt matches one of the regular expressions of dropped_messages
MatchesDropped(txt) ==
    \E k \in 1..Len(DroppedList) :
        RegexCompiles(DroppedList[k]) /\ RegexSearch(DroppedList[k], txt)

\* the lines of the SAS log
SAS_logx == Split(post_call.aux, "\n")

\* every error entry and every warning entry the classifier of the call builds
AllErrorEntries ==
    IF post_call.classifier = "R"
    THEN R_ErrorEntries(R_textx, HeaderNums(R_textx, R_re_error))
    ELSE SAS_ErrorEntries(SAS_logx, HeaderNums(SAS_logx, SAS_re_error))

AllWarningEntries ==
    IF post_call.classifier = "R" THEN R_AllWarnings
    ELSE SAS_WarningEntries(SAS_logx, HeaderNums(SAS_logx, SAS_re_warning))

NotDropped(entries) == SelectSeq(entries, LAMBDA txt : ~MatchesDropped(txt))

NoneShown(entries) ==
    \A n \in 1..Len(entries) :
        MatchesDropped(entries[n]) => ~IsSubstr(entries[n], post_result.messages)

\* C18: for both the R and the SAS classifier, and for both error and warning
\* entries, an entry matching any regular expression of the configured
\* dropped_messages list is excluded from the count compared to the configured
\* maximum and from the message block.
C18_DroppedMessagesExcluded ==
    (Classified("R") \/ Classified("SAS")) =>
        /\ \E n \in 0..Len(NotDropped(AllErrorEntries)) :
               post_result.out_analysis[1] = Tally("errors", post_call.config.max_errors, n)
        /\ \E n \in 0..Len(NotDropped(AllWarningEntries)) :
               post_result.out_analysis[2] = Tally("warnings", post_call.config.max_warnings, n)
        /\ NoneShown(AllErrorEntries)
        /\ NoneShown(AllWarningEntries)

\* the transcript the headers are looked for in, and the terminators of its toolchain
HeaderLines == IF post_call.classifier = "R" THEN R_textx ELSE SAS_logx

Terminators == IF post_call.classifier = "R" THEN {">"} ELSE Digits

ErrorHeads == IF post_call.classifier = "R" THEN R_re_error ELSE SAS_re_error

WarningHeads == IF post_call.classifier = "R" THEN R_re_warning ELSE SAS_re_warning

\* the entry of the header at position k: the header line, then at most three
\* following lines, up to the end, an empty line or a terminator
StatedEntry(k) ==
    EntryStart(k) \o HeaderLines[k] \o <<"\n">>
        \o Continuation(HeaderLines, k + 1, MaxContinuation, Terminators)

\* the entry is one the classifier suppresses
Suppressed(txt, kind) ==
    IF post_call.classifier = "R" THEN BuiltUnderSearch(txt)
    ELSE IF kind = "errors" THEN PrintedOnPageSearch(txt)
    ELSE IgnoreSearch(IgnoreText(post_call.config.dropped_messages), txt)

EntriesAsStated(heads, kind) ==
    \A n \in 1..Len(HeaderNums(HeaderLines, heads)) :
        ~Suppressed(StatedEntry(HeaderNums(HeaderLines, heads)[n]), kind)
            => IsSubstr(StatedEntry(HeaderNums(HeaderLines, heads)[n]), post_result.messages)

\* nothing but the scan of the headers can make the classifier of the call fail
ScanIsAllThatCanFail ==
    /\ post_pc = "done"
    /\ post_call.classifier \in {"R", "SAS"}
    /\ post_call.aux # Absent
    /\ RegexCompiles(IgnoreText(post_call.config.dropped_messages))
    /\ req_and_prohib(OutputRules(post_call.config), post_call.text, "output").status
           = "returned"

\* C19: for every detected error or warning header line, in the R and in the
\* SAS classifier, the entry is the header line plus at most the three lines
\* right after it, taken in order up to the first line that is empty, is past
\* the end of the transcript or begins with the terminator of the toolchain
\* (">" for R, a digit for SAS); a header on the last line of the transcript
\* gives an entry without continuation, and no failure.
C19_EntryIsHeaderPlusContinuation ==
    ScanIsAllThatCanFail =>
        /\ post_result.status = "returned"
        /\ EntriesAsStated(ErrorHeads, "errors")
        /\ EntriesAsStated(WarningHeads, "warnings")

\* what the rule engine gives for the output rules on the full transcript
OutputRuleResult == req_and_prohib(OutputRules(post_call.config), post_call.text, "output")

\* the last messages of a summary text are exactly msgs
EndsWith(summary, msgs) ==
    /\ Len(summary) >= Len(msgs)
    /\ SubSeq(summary, Len(summary) - Len(msgs) + 1, Len(summary)) = msgs

\* C20: each of R_post_analyze, SAS_post_analyze and PY_post_analyze ends by
\* evaluating the output rules (req_output, prohib_output) on the full
\* transcript, and both the resulting point delta and the resulting rule text
\* are in the (points, text) summary it returns.
C20_RuleResultInReturnedSummary ==
    (post_pc = "done" /\ post_result.status = "returned") =>
        /\ SamePoints(post_result.points_docked, OutputRuleResult.points_docked)
        /\ EndsWith(post_result.points_text, OutputRuleResult.out_analysis)

(***************************************************************************)
(* run_one followed through the texts it writes                            *)
(***************************************************************************)

\* chr(402) and chr(12), which get_text_and_put_in_tab replaces in a SAS listing
Florin == "florin"
FormFeed == "\f"

\* line 1930: text.replace(chr(402), "-").replace(chr(12), "\n")
SAS_Replace(text) ==
    [i \in 1..Len(text) |-> IF text[i] = Florin THEN "-"
                            ELSE IF text[i] = FormFeed THEN "\n" ELSE text[i]]

\* lines 1126-1129: the text re_comment looks for after the white space of a line
CommentToken(ext) == IF ext = <<".", "S", "A", "S">> THEN <<"/", "*">> ELSE <<"#">>

\* the search without the anchor and the white space: the token anywhere in the line
CommentAnywhere(ext, s) == IsSubstr(CommentToken(ext), s)

\* re_comment.search(s) is not None: "^\s*#" or "^\s*[/][*]"
CommentSearch(ext, s) ==
    StartsWith(SubSeq(s, SkipSpace(s, 1), Len(s)), CommentToken(ext))

\* re_blank.match(s) is not None: "^\s*$"
BlankMatch(s) == SkipSpace(s, 1) > Len(s)

\* sum([re_comment.search(s) is not None for s in textx])
CommentCount(ext, textx) == Cardinality({i \in 1..Len(textx) : CommentSearch(ext, textx[i])})

\* sum([re_blank.match(s) is not None for s in textx])
BlankCount(textx) == Cardinality({i \in 1..Len(textx) : BlankMatch(textx[i])})

\* "Desired / actual comments = " + str(config['min_comments']) + " / " + str(count) + "\n"
Desired(what, desired, actual) ==
    Message(NonePoints, "Desired / actual", what,
            IntToStr(desired) \o <<" ", "/", " ">> \o IntToStr(actual))

\* the rules of the code category of a configuration
CodeRules(config) ==
    [req |-> config.req_code, prohib |-> config.prohib_code, code_or_output |-> "code"]

PreRaised == [status |-> "raised", points_docked |-> NonePoints, points_text |-> <<>>,
              result |-> <<>>]

\* pre_analyze lines 1132-1158, with the lines of the text and the rule result
PreFinish(ext, textx, config, rules) ==
    IF rules.status # "returned" THEN PreRaised
    ELSE [status |-> "returned",
          points_docked |-> DockedBy(rules),
          points_text |-> rules.out_analysis,
          result |-> << Desired("comments", config.min_comments, CommentCount(ext, textx)),
                        Desired("blanks", config.min_blanks, BlankCount(textx)) >>
                     \o rules.out_analysis]

\* pre_analyze(text, sandbox, index) for a codefile with the extension ext (upper case):
\* re_comment is unbound for an extension without a comment syntax
pre_analyze(text, ext, config) ==
    IF ext \notin CodedExtensions THEN PreRaised
    ELSE PreFinish(ext, Split(text, "\n"), config, req_and_prohib(CodeRules(config), text, "code"))

\* "[Error code is " + str(code.returncode) + "]"
ErrMsg(returncode) ==
    <<"[", "E", "r", "r", "o", "r", " ", "c", "o", "d", "e", " ", "i", "s", " ">>
        \o IntToStr(returncode) \o <<"]">>

\* submit_code lines 1679-1687: what is written to output_name
CodeOutput(returncode, code_output) ==
    IF code_output = Absent THEN ErrMsg(returncode)
    ELSE ErrMsg(returncode) \o <<"\n", "\n">> \o code_output

\* what post_analyze finds in <sandbox>/<versioned filename>out after submit_code: for
\* .Rmd output_name is <versioned filename>.out, so the transcript is as R left it
\* (Absent when R could not be launched); for the others it is what submit_code wrote
Outfile(ext, returncode, transcript) ==
    IF ext = <<".", "R", "M", "D">> THEN transcript ELSE CodeOutput(returncode, transcript)

\* the pieces a letter is put together from
Piece(part, sand_name, points, out_of, text) ==
    [part |-> part, codefile |-> sand_name, points |-> points, out_of |-> out_of, text |-> text]

\* '(no letter)' of line 1074
BlankLetter == <<Piece("(no letter)", <<>>, NonePoints, NonePoints, <<>>)>>

\* fail_text of lines 1179-1180
FailText(sand_name) ==
    <<Piece("awards zero points because no output was produced", sand_name, NonePoints,
            NonePoints, <<>>)>>

\* "You scored " + str(points_earned) + " out of " + str(total_points) + ".\n\n"
YouScored(points_earned, total_points) ==
    Piece("You scored", <<>>, points_earned, total_points, <<>>)

\* the total without lines 1077-1078: a total that is not positive is still a total
TotalPointsAsConfigured(config) ==
    [isNone |-> FALSE, num |-> config.total_points, den |-> 1]

\* lines 1076-1078
TotalPoints(config) ==
    IF config.total_points <= 0 THEN NonePoints
    ELSE [isNone |-> FALSE, num |-> config.total_points, den |-> 1]

\* write_letter(codefile, total_points, pre_analysis_points, pre_analysis_text,
\* post_analysis_points, post_analysis_text): the letter written (the two texts are
\* never None when run_one calls it)
write_letter(sand_name, total_points, pre_points, pre_text, post_points, post_text) ==
    << Piece("Analysis of homework file", sand_name, NonePoints, NonePoints, <<>>) >>
    \o (IF ~total_points.isNone /\ ~pre_points.isNone /\ ~post_points.isNone
        THEN << YouScored(AddPoints(AddPoints(total_points, pre_points), post_points),
                          total_points) >>
        ELSE <<>>)
    \o << Piece("Code analysis", <<>>, NonePoints, NonePoints, pre_text),
          Piece("Analysis of results", <<>>, NonePoints, NonePoints, post_text) >>

\* what run_one has left: whether it returned, the four artifacts of the sandbox
\* (Absent when not written), and what the two analyses returned
Graded(status, pre, no_output, post, msg, pst, ltr) ==
    [status |-> status, pre |-> pre, no_output |-> no_output, post |-> post,
     msg |-> msg, pst |-> pst, ltr |-> ltr]

\* post_analyze lines 1174-1184: no output
NoOutputReturn ==
    [status |-> "returned", points_docked |-> ZeroPoints, points_text |-> <<>>,
     messages |-> <<"N", "o", " ", "o", "u", "t", "p", "u", "t", ",", " ", "s", "o", " ", "n", "o", " ", "m", "e", "s", "s", "a", "g", "e", "s">>,
     out_analysis |-> <<Message(NonePoints, "No output, so no output analysis", "", <<>>)>>]

\* post_analyze lines 1186-1202: the classifier of the extension
Classifier(ext, text, aux, config) ==
    IF ext \in {<<".", "R">>, <<".", "R", "M", "D">>} THEN R_post_analyze(text, config)
    ELSE IF ext = <<".", "S", "A", "S">> THEN SAS_post_analyze(SAS_Replace(text), aux, config)
    ELSE PY_post_analyze(text, aux, config)

\* run_one lines 1091-1096, after post_analyze has returned post
GradeLetter(call, pre, no_output, post) ==
    Graded("returned", pre, no_output, post, post.messages, post.out_analysis,
           write_letter(call.codefile, TotalPoints(call.config), pre.points_docked,
                        pre.points_text, post.points_docked, post.points_text))

\* run_one lines 1087-1096: post_analyze on the text of the output artifact (for SAS,
\* None.replace raises), then the letter
GradePost(call, ext, pre, text) ==
    IF text = Absent
    THEN IF ext = <<".", "S", "A", "S">>
         THEN Graded("raised", pre, TRUE, PostRaised, Absent, Absent, BlankLetter)
         ELSE GradeLetter(call, pre, TRUE, NoOutputReturn)
    ELSE IF Classifier(ext, text, call.aux, call.config).status = "raised"
    THEN Graded("raised", pre, FALSE, PostRaised, Absent, Absent, BlankLetter)
    ELSE GradeLetter(call, pre, FALSE, Classifier(ext, text, call.aux, call.config))

\* run_one lines 1084-1085: submit_code, which cannot unpack the None that
\* setup_RMD_runstring returns when the code to prepend has no chunk to go before
GradeSubmit(call, ext, pre) ==
    IF pre.status = "raised"
    THEN Graded("raised", pre, FALSE, PostRaised, Absent, Absent, BlankLetter)
    ELSE IF ext = <<".", "R", "M", "D">>
            /\ RmdPrependFails(call.code \o <<"\n">>, Strip(call.config.code_prepend))
    THEN Graded("raised", pre, FALSE, PostRaised, Absent, Absent, BlankLetter)
    ELSE GradePost(call, ext, pre, Outfile(ext, call.returncode, call.transcript))

\* run_one lines 1069-1096 in an existing sandbox, for the code of the student
RunOneGraded(call) ==
    GradeSubmit(call, Upper(get_extension(call.codefile)),
                pre_analyze(call.code \o <<"\n">>, Upper(get_extension(call.codefile)),
                            call.config))

(***************************************************************************)
(* Specification SpecGrade: one student graded, text by text               *)
(***************************************************************************)

MaxCodeLines == 3

Str_hwtxt == <<"h", "w", ".", "t", "x", "t">>

\* lines of a submission: comments of either language with and without white space
\* before them, a comment after code, a broken token, an empty and a blank line
CodeLines ==
    { <<"#">>, <<" ", "\t", "#", "c">>, <<"x", " ", "#">>, <<"/", "*">>,
      <<"\t", "/", "*", "c">>, <<"/", " ", "*">>, <<>>, <<" ">> }

\* a submission with six comment lines of either language among its fourteen lines
SixComments ==
    Join(<< <<"#", "/", "*">>, <<" ", "#", "/", "*">>, <<"x", " ", "#">>, <<"\t", "#", "/", "*">>,
            <<"#">>, <<"#", " ", "/", "*">>, <<"#", "c">>,
            <<"/", "*", "#">>, <<" ", "/", "*", "#">>, <<"x", " ", "/", "*">>,
            <<"\t", "/", "*", "#">>, <<"/", "*">>, <<"/", "*", " ", "#">>, <<"/", "*", "c">> >>,
         <<"\n">>)

Codes ==
    {Join(t, <<"\n">>) : t \in UNION {[1..n -> CodeLines] : n \in 1..MaxCodeLines}}
        \cup {SixComments}

\* the fields of the specific configuration run_one and its analyses read
GradeConfig(total_points, min_comments, req_code, prohib_output, code_prepend) ==
    [total_points |-> total_points, min_comments |-> min_comments, min_blanks |-> 5,
     req_code |-> req_code, prohib_code |-> <<>>, code_prepend |-> code_prepend,
     max_errors |-> 0, max_warnings |-> 0, dropped_messages |-> <<>>,
     req_output |-> <<>>, prohib_output |-> prohib_output]

GradeConfigs ==
    { GradeConfig(100, 5, <<>>, <<>>, <<>>),
      GradeConfig(0, 5, <<>>, <<>>, <<>>),
      GradeConfig(-1, 0, <<"{", "-", "5", "}", "b", "a", "d">>, <<>>, <<>>),
      GradeConfig(10, 2, <<"{", "-", "5", "}", "b", "a", "d">>, <<"{", "-", "2", "}", "o", "o", "p", "s">>, <<>>),
      GradeConfig(10, 5, <<"{", "2", "}", "#">>, <<"{", "-", "2", "}", "o", "o", "p", "s">>, <<>>),
      GradeConfig(10, 5, <<"(", "b", "a">>, <<>>, <<>>),
      GradeConfig(10, 5, <<>>, <<"(", "b", "a">>, <<>>),
      GradeConfig(10, 5, <<>>, <<>>, <<"x">>) }

\* what the toolchain left in <versioned filename>out: nothing at all (it could not
\* be launched), an empty transcript, a plain one, one with an error header at its end
Transcripts ==
    { Absent, <<>>, Str_oops, <<"o", "o", "p", "s", "\n", "E", "r", "r", "o", "r", ":", " ", "x">> }

\* the log (SAS) or the err file (Python)
AuxTexts == { Absent, <<>>, <<"E", "R", "R", "O", "R", ":", " ", "e">> }

\* one call of run_one: the codefile (which is the versioned filename of the student
\* too), the code of the student, what the toolchain does, and the configuration
GradeCalls ==
    {[codefile |-> cf, code |-> c, transcript |-> Str_oops, returncode |-> 0,
      aux |-> <<>>, config |-> g] :
        cf \in {Str_hwR, Str_hwRmd, Str_hwsas, Str_hwpy}, c \in Codes,
        g \in {GradeConfig(100, 5, <<>>, <<>>, <<>>)}}
    \cup
    {[codefile |-> cf, code |-> c, transcript |-> t, returncode |-> rc,
      aux |-> a, config |-> g] :
        cf \in {Str_hwR, Str_hwRmd, Str_hwsas, Str_hwpy, Str_hwtxt},
        c \in {<<"#">>, <<"x">>, <<"#", "\n", Backtick, Backtick, Backtick, "{", "r">>},
        t \in Transcripts, rc \in {0, 1}, a \in AuxTexts, g \in GradeConfigs}

InitGrade ==
    /\ global_general_config = HardcodedGeneralConfig
    /\ general_config = HardcodedGeneralConfig
    /\ filename_separator = "None"
    /\ file_format_items = <<>>
    /\ student_name_in_file_format = FALSE
    /\ late_index_in_file_format = -1
    /\ local_general_file = Absent
    /\ warnings = <<>>
    /\ file_format_arg = <<>>
    /\ fmt_pc = "call"
    /\ ResolverUnused
    /\ RuleUnused
    /\ ConfigUnused
    /\ RunUnused
    /\ DecodeUnused
    /\ ClassifyUnused
    /\ grade_call \in GradeCalls
    /\ grade_result = [status |-> "none"]
    /\ grade_pc = "call"

\* run_one(who), from the blank letter on
GradeOne ==
    /\ grade_pc = "call"
    /\ grade_result' = RunOneGraded(grade_call)
    /\ grade_pc' = "done"
    /\ UNCHANGED <<grade_call, fmtVars, resVars, ruleVars, cfgVars, runVars, decVars,
                   postVars>>

NextGrade == GradeOne

SpecGrade == InitGrade /\ [][NextGrade]_vars

(***************************************************************************)
(* Claims about the texts of a grading run (under SpecGrade)               *)
(***************************************************************************)

\* run_one has returned, having gone through write_letter
GradeReturned == grade_pc = "done" /\ grade_result.status = "returned"

\* the positions of the numeric score section in a letter
ScorePositions(letter) == {i \in 1..Len(letter) : letter[i].part = "You scored"}

\* total_points + pre-analysis point delta + post-analysis point delta, the deltas
\* being what pre_analyze and post_analyze returned
StatedScore(total, pre, post) ==
    [isNone |-> FALSE,
     num |-> total * pre.den * post.den + pre.num * post.den + post.num * pre.den,
     den |-> pre.den * post.den]

\* C21: the letter of a run_one that returned holds a numeric score section if and only
\* if the configured total_points is positive; the score it reports is total_points +
\* pre-analysis point delta + post-analysis point delta, out of total_points; with
\* total_points <= 0 there is no numeric section.
C21_ScoreSectionIffTotalPointsPositive ==
    GradeReturned =>
        /\ Cardinality(ScorePositions(grade_result.ltr))
               = (IF grade_call.config.total_points > 0 THEN 1 ELSE 0)
        /\ \A i \in ScorePositions(grade_result.ltr) :
              /\ SamePoints(grade_result.ltr[i].points,
                            StatedScore(grade_call.config.total_points,
                                        grade_result.pre.points_docked,
                                        grade_result.post.points_docked))
              /\ SamePoints(grade_result.ltr[i].out_of,
                            [isNone |-> FALSE, num |-> grade_call.config.total_points,
                             den |-> 1])

\* a letter with a score of 3 out of 10: 5 points docked by pre-analysis and 2 by
\* post-analysis
C21_Witness ==
    /\ GradeReturned
    /\ grade_call.config.total_points = 10
    /\ SamePoints(grade_result.pre.points_docked, [isNone |-> FALSE, num |-> -5, den |-> 1])
    /\ SamePoints(grade_result.post.points_docked, [isNone |-> FALSE, num |-> -2, den |-> 1])
    /\ \E i \in ScorePositions(grade_result.ltr) :
           SamePoints(grade_result.ltr[i].points, [isNone |-> FALSE, num |-> 3, den |-> 1])

(***************************************************************************)
(* Claims about a student whose run cannot start (under SpecRun)           *)
(***************************************************************************)

\* the student run_one looks up for the k-th label of the batch
StudentOf(k) == IndexOf(file_label[k], file_label)

\* reading the submission of the k-th label fails: get_text gives None (for the
\* student on display the code is self.current_code)
SubmissionUnreadable(k) ==
    IF file_label[k] = chosen_file THEN current_code = Absent
    ELSE get_text(fullname[StudentOf(k) + 1]) = Absent

\* creating the sandbox of the k-th label fails
SandboxFails(k) == get_dir_name(StudentOf(k)) = <<>>

\* the run of the k-th label was started by the batch and could not get going
RunAbandoned(k) ==
    /\ run_log'.iterations[k].invoked
    /\ SubmissionUnreadable(k) \/ SandboxFails(k)

\* C22: in a run_all, a student whose sandbox cannot be created or whose submission
\* cannot be read has only their own run abandoned: no exception ends the batch at
\* that student, and the batch goes on to the students after them.
C22_FailedStudentLeavesBatchRunning ==
    [][RunAll =>
          \A k \in 1..Len(run_log'.iterations) :
              RunAbandoned(k) =>
                  \/ k < Len(run_log'.iterations)
                  \/ run_log'.status = "returned"]_vars

(***************************************************************************)
(* Claims about pre-analysis and the no-output letter (under SpecGrade)    *)
(***************************************************************************)

\* the lines of the submission
SubmissionLines == Split(grade_call.code, "\n")

\* the comment token of the language of the codefile
StatedToken ==
    IF Upper(get_extension(grade_call.codefile)) = <<".", "S", "A", "S">> THEN <<"/", "*">>
    ELSE <<"#">>

\* the first characters of the line that are not white space are the comment token
IsCommentLine(s) ==
    \E k \in 1..Len(s) :
        /\ \A j \in 1..(k - 1) : s[j] \in Whitespace
        /\ k + Len(StatedToken) - 1 <= Len(s)
        /\ SubSeq(s, k, k + Len(StatedToken) - 1) = StatedToken

StatedCommentLines == {i \in 1..Len(SubmissionLines) : IsCommentLine(SubmissionLines[i])}

\* pre_analyze has returned its report
PreAnalyzed == grade_pc = "done" /\ grade_result.pre.status = "returned"

\* C27: the report of pre_analyze starts with 'Desired / actual comments =
\* <min_comments> / <n>', n being the number of lines of the submission whose first
\* characters that are not white space are the comment token of the language ('#' for
\* R, Rmd and Python, '/*' for SAS); 6 such lines with min_comments 5 give
\* 'Desired / actual comments = 5 / 6'.
C27_CommentCountInPreAnalysis ==
    PreAnalyzed =>
        /\ grade_result.pre.result[1].wording = "Desired / actual"
        /\ grade_result.pre.result[1].what = "comments"
        /\ grade_result.pre.result[1].line =
               IntToStr(grade_call.config.min_comments) \o <<" ", "/", " ">>
                   \o IntToStr(Cardinality(StatedCommentLines))

\* the submission with 6 comment lines among its 14 lines, against a minimum of 5,
\* has the report '5 / 6'
C27_Witness ==
    /\ PreAnalyzed
    /\ grade_call.code = SixComments
    /\ grade_call.config.min_comments = 5
    /\ grade_result.pre.result[1].line = <<"5", " ", "/", " ", "6">>

\* C30: when post_analyze finds no output artifact, the letter run_one leaves when it
\* returns is the failure text 'Analysis of <file> awards zero points because no output
\* was produced.', not a letter put together by write_letter.
C30_NoOutputLeavesFailureText ==
    (GradeReturned /\ grade_result.no_output) =>
        grade_result.ltr = FailText(grade_call.codefile)

(***************************************************************************)
(* Claims about files that are missing or malformed (under SpecConfig)     *)
(***************************************************************************)

\* the directory was entered without an AutoGrader.config, or with an empty one
GeneralFileMissing == ~cfg_input.dir.general.exists

GeneralFileEmpty == cfg_input.dir.general.exists /\ cfg_input.dir.general.records = <<>>

\* every field but the time stamp is as in the tier before
SameFields(config, prior) ==
    \A k \in DOMAIN prior : k = "config_mod_time" \/ config[k] = prior[k]

\* update_general_config has just returned: the general tier kept the values of the
\* global one, was written out as AutoGrader.config, and is stamped with the time of
\* the call
GeneralTierHealed ==
    /\ SameFields(general_config, global_general_config)
    /\ local_general_file = GeneralConfigText(general_config)
    /\ general_config.config_mod_time = now - 1

\* the '<codefile>.config' names set_specific_configs found no file for
SpecificFilesMissing ==
    {name \in DOMAIN specific_configs.entries :
        FileText(SpecificFilesOf(cfg_input.dir), name) = Absent}

\* set_specific_configs has just returned: the same for a per-codefile tier
SpecificTierHealed(name) ==
    /\ SameFields(specific_configs.entries[name], global_specific_config)
    /\ FileText(local_specific_files, name)
           = ConfigText(specific_configs.entries[name], specific_config_setup)
    /\ specific_configs.entries[name].config_mod_time = now - 1

\* C23: loading a tier whose file is missing or empty leaves every field at the value
\* of the tiers before it, writes the configuration out as the new file and stamps
\* config_mod_time with the current time, for AutoGrader.config of the directory as
\* well as for the '<codefile>.config' files.
C23_MissingTierFileIsWrittenOut ==
    /\ (cfg_pc = "general" /\ (GeneralFileMissing \/ GeneralFileEmpty)) => GeneralTierHealed
    /\ (cfg_pc = "ready" /\ ~specific_configs.isNone) =>
           \A name \in SpecificFilesMissing : SpecificTierHealed(name)

\* a record whose id is none of the ids of config_setup
UnknownId(r, config_setup) == r.id # "" /\ ~InList(r.id, SetupIds(config_setup))

\* a record for an integer field whose value is not an integer
BadInteger(r, config_setup) ==
    /\ InList(r.id, SetupIds(config_setup))
    /\ FieldOf(r.id, config_setup).type = "int"
    /\ ~IntValid(r.value)

\* a file with a record of one of the two kinds, every other record being well formed,
\* and no two records for one id
HoldsIgnoredRecord(input, config_setup) ==
    /\ input.exists
    /\ \E i \in 1..Len(input.records) :
          UnknownId(input.records[i], config_setup) \/ BadInteger(input.records[i], config_setup)
    /\ \A i \in 1..Len(input.records) :
          \/ UnknownId(input.records[i], config_setup)
          \/ BadInteger(input.records[i], config_setup)
          \/ RecordWellFormed(input.records[i], config_setup)
    /\ \A i, j \in 1..Len(input.records) :
          i # j => input.records[i].id # input.records[j].id

\* the records of the file that are to be applied to field k
AppliedTo(input, k, config_setup) ==
    {i \in 1..Len(input.records) :
        input.records[i].id = k /\ RecordWellFormed(input.records[i], config_setup)}

\* the value of field k after the load: that of its well-formed record, else the
\* value it had before
ValueAfter(input, k, prior, config_setup) ==
    IF AppliedTo(input, k, config_setup) = {} THEN prior[k]
    ELSE ValueOfRecord(input.records[CHOOSE i \in AppliedTo(input, k, config_setup) : TRUE],
                       config_setup)

\* C24: in update_config_from_file a record with an unknown id changes no field, and a
\* record for an integer field whose value is not an integer leaves that field at its
\* prior value; every other record of the file is applied all the same (file_format
\* aside when the format of the file was rejected).
C24_IgnoredRecordsLeaveRestApplied ==
    /\ (cfg_pc = "general" /\ HoldsIgnoredRecord(cfg_input.dir.general, general_config_setup)) =>
          \A i \in 1..Len(general_config_setup) :
              \/ general_config_setup[i].id = "file_format" /\ FormatFellBack
              \/ general_config[general_config_setup[i].id]
                    = ValueAfter(cfg_input.dir.general, general_config_setup[i].id,
                                 global_general_config, general_config_setup)
    /\ (/\ cfg_pc = "ready"
        /\ ~specific_configs.isNone
        /\ (Str_hwR \o Str_config) \in DOMAIN specific_configs.entries
        /\ HoldsIgnoredRecord(cfg_input.dir.specific, specific_config_setup)) =>
          \A i \in 1..Len(specific_config_setup) :
              specific_configs.entries[Str_hwR \o Str_config][specific_config_setup[i].id]
                  = ValueAfter(cfg_input.dir.specific, specific_config_setup[i].id,
                               global_specific_config, specific_config_setup)

\* hw.R.config with 'min_comments: x' and 'req_code: good' has been loaded over a global
\* tier with min_comments 3: min_comments is still 3 and req_code is 'good'; and
\* AutoGrader.config with 'bogus: 1' and 'course_id: c2' has given course_id 'c2'
C24_Witness ==
    /\ cfg_pc = "ready"
    /\ ~specific_configs.isNone
    /\ (Str_hwR \o Str_config) \in DOMAIN specific_configs.entries
    /\ HoldsIgnoredRecord(cfg_input.dir.specific, specific_config_setup)
    /\ HoldsIgnoredRecord(cfg_input.dir.general, general_config_setup)
    /\ global_specific_config.min_comments = 3
    /\ specific_configs.entries[Str_hwR \o Str_config].min_comments = 3
    /\ specific_configs.entries[Str_hwR \o Str_config].req_code = Str_good
    /\ general_config.course_id = Str_c2
    /\ InList("Bad config. info", warnings)
    /\ InList("Bad config info", warnings)

\* C25: a record without an 'id:' header does not leave the configuration undefined:
\* after a load, general_config is a configuration, and so is every entry of
\* specific_configs.
C25_MalformedRecordLeavesUsableConfig ==
    cfg_pc # "new_dir" =>
        /\ general_config # NoneConfig
        /\ ~specific_configs.isNone =>
               \A name \in DOMAIN specific_configs.entries :
                   specific_configs.entries[name] # NoneConfig

(***************************************************************************)
(* Claims about the wildcard of codefiles (under SpecConfig)               *)
(***************************************************************************)

\* the codefiles entry is the wildcard *.RRmd
IsRRmdWildcard == CodefileList(general_config) = << <<"*", ".">> \o Str_RRmd >>

\* the canonical filenames decoded from the listed files whose extension is R or Rmd
\* in any case, without the empty ones of the files that do not decode
NamesOfRFiles == ExpandedNames(AllMatches(OKFiles(dir_listing, {Str_R, Str_Rmd})))

\* C26: when the codefiles entry is the wildcard *.RRmd, get_codefiles leaves as
\* codefiles the canonical filenames decoded from exactly the listed files whose
\* extension is R or Rmd (in any case), each once; a file of another extension gives
\* no codefile (and codefiles is None when there is no such name).
C26_RRmdExpandsToRAndRmdOnly ==
    [][(GetCodefiles /\ IsRRmdWildcard /\ cfg_pc' = "codefiles") =>
          IF codefiles' = NoneList THEN NamesOfRFiles = {}
          ELSE /\ Chars(codefiles') = NamesOfRFiles
               /\ Len(codefiles') = Cardinality(NamesOfRFiles)]_vars

(***************************************************************************)
(* Claims about the state kept across directory changes (under SpecConfig) *)
(***************************************************************************)

\* update_general_config has returned for the directory being set up
GeneralConfigActive == cfg_pc \in {"general", "codefiles", "students", "ready"}

\* C28: once update_general_config has returned for a directory, after any sequence
\* of directory changes, filename_separator, file_format_items,
\* student_name_in_file_format and late_index_in_file_format are the parse of the
\* file_format of the general configuration that is now active.
C28_DecoderIsParseOfActiveFormat ==
    GeneralConfigActive => DecoderIs(general_config.file_format)

\* C29: once a directory is set up and codefiles is not None, after any sequence of
\* directory changes and edits of the general configuration, specific_configs holds
\* an entry '<codefile>.config' for every codefile, so that run_one can look up the
\* configuration of the codefile it is asked to run.
C29_EveryCodefileHasSpecificConfig ==
    (cfg_pc = "ready" /\ codefiles # NoneList) =>
        /\ ~specific_configs.isNone
        /\ \A i \in 1..Len(codefiles) :
               (codefiles[i] \o Str_config) \in DOMAIN specific_configs.entries

====
